---- MODULE Spec2Model ----
(***************************************************************************)
(* Route-to-music mapper: webhook ingestion, the processing_jobs queue,    *)
(* the job executor and the persistence of activities and mapped songs.    *)
(*                                                                         *)
(* Time is counted in whole minutes (now, scheduled_for).  Activity and    *)
(* song timestamps are whole seconds on a separate axis.  SQL NULL is the  *)
(* empty string for text columns and -1 for numeric columns.               *)
(***************************************************************************)
EXTENDS Integers, Sequences, FiniteSets, TLC

\* ------------------------------------------------------------------ bounds
MaxTime == 7
MaxJobs == 1
MaxEvents == 2

\* --------------------------------------------------------------- constants
DefaultMaxRetries == 3
DefaultLimit == 10
WebhookPriority == 10
DefaultPriority == 0
FetchLeadSeconds == 1800

Claimants == {"c1", "c2"}
NullText == ""
NullInt == -1

VARIABLES
  now,              \* CURRENT_TIMESTAMP, minutes
  processing_jobs,  \* table: sequence of rows, row id = index
  webhook_events,   \* table: sequence of rows, row id = index
  activities,       \* table: set of rows
  activity_songs,   \* table: set of rows
  activities_seq,   \* SERIAL sequence of activities.id (last value handed out)
  songs_seq,        \* SERIAL sequence of activity_songs.id
  pc,               \* per claimant: position inside processPendingJobs/processJob
  sel,              \* per claimant: job ids still to process, head = current
  processed,        \* per claimant: the counter of processPendingJobs
  dbActivityId,     \* per claimant: id returned by the activities upsert
  songIdx,          \* per claimant: position in the mappedSongs loop
  manual,           \* the manual POST /api/process-run request in flight
  response,         \* last HTTP response of the webhook POST handler
  auth_tokens,      \* table: set of rows, at most one per (user_id, provider)
  tm,               \* per caller: the getValidToken call in flight or its outcome
  mapped,           \* last call of mapSongsToRoute: its arguments and result
  webhook_subscriptions, \* table: set of rows
  verification,     \* last HTTP response of the webhook GET (handshake) handler
  cleanup           \* last call of cleanupOldJobs: the table before and after

vars == <<now, processing_jobs, webhook_events, activities, activity_songs,
          activities_seq, songs_seq, pc, sel, processed, dbActivityId,
          songIdx, manual, response, auth_tokens, tm, mapped,
          webhook_subscriptions, verification, cleanup>>

queueVars == <<processing_jobs, pc, sel, processed, dbActivityId, songIdx>>
storeVars == <<activities, activity_songs, activities_seq, songs_seq>>
tokenVars == <<auth_tokens, tm>>
handshakeVars == <<webhook_subscriptions, verification>>

\* ----------------------------------------------------------- users table
\* users.strava_athlete_id -> users.id ; athlete 7 is the only known owner
UserOfAthlete(owner_id) == IF owner_id = 7 THEN {1} ELSE {}

\* ------------------------------------------------- upstream collaborators
\* Strava activity detail by id.  Activity 1 is a run with GPS data,
\* activity 2 does not exist upstream (every fetch errors), activity 3 is a
\* run without polyline data, activity 4 a run whose polyline does not
\* decode, activity 5 a run of duration 0, activity 6 a ride.
UpstreamExists(aid) == aid \in {1, 3, 4, 5, 6}

StravaActivity(aid) ==
  IF aid = 1
  THEN [id |-> 1, type |-> "Run", polyline |-> "enc1",
        start_date |-> 3600, elapsed_time |-> 60,
        splits_metric |-> << >>]
  ELSE IF aid = 4
  THEN [id |-> 4, type |-> "Run", polyline |-> "bad",
        start_date |-> 3600, elapsed_time |-> 60,
        splits_metric |-> << >>]
  ELSE IF aid = 5
  THEN [id |-> 5, type |-> "Run", polyline |-> "enc1",
        start_date |-> 3600, elapsed_time |-> 0,
        splits_metric |-> << >>]
  ELSE IF aid = 6
  THEN [id |-> 6, type |-> "Ride", polyline |-> "enc1",
        start_date |-> 3600, elapsed_time |-> 60,
        splits_metric |-> << >>]
  ELSE [id |-> aid, type |-> "Run", polyline |-> NullText,
        start_date |-> 3600, elapsed_time |-> 60,
        splits_metric |-> << >>]

\* variant: what does not decode yields one point
decodePolyline_Lenient(encoded) ==
  IF encoded = "enc1" THEN <<0, 10, 20, 30, 40>> ELSE <<0>>

\* 1-D positions (metres along a straight line) of the decoded polyline;
\* the catch block returns [] for what polyline.decode rejects
decodePolyline(encoded) ==
  IF encoded = "enc1" THEN <<0, 10, 20, 30, 40>> ELSE << >>

\* Spotify recently-played history of the owner (track id, played_at)
RecentlyPlayedAll ==
  << [track |-> "t1", played_at |-> 3590],
     [track |-> "t1", played_at |-> 3600],
     [track |-> "t2", played_at |-> 3630],
     [track |-> "t3", played_at |-> 3661] >>

RECURSIVE AfterRec(_, _, _)
AfterRec(items, i, after) ==
  IF i > Len(items) THEN << >>
  ELSE (IF items[i].played_at > after THEN <<items[i]>> ELSE << >>)
       \o AfterRec(items, i + 1, after)

getRecentlyPlayed(after) == AfterRec(RecentlyPlayedAll, 1, after)

\* ------------------------------------------------------------ RouteMapper
\* Fractions are exact rationals [num, den]; den = 0 stands for a
\* non-finite JavaScript number (NaN or Infinity).
Abs(x) == IF x < 0 THEN 0 - x ELSE x

calculateDistance(c1, c2) == Abs(c2 - c1)

\* distances[] of getCoordinateAtPercentage: cumulative distance up to
\* point i (1-based here, 0-based in the source)
RECURSIVE CumulativeDistance(_, _)
CumulativeDistance(coordinates, i) ==
  IF i <= 1 THEN 0
  ELSE CumulativeDistance(coordinates, i - 1)
       + calculateDistance(coordinates[i - 1], coordinates[i])

\* returns the 0-based index, or NullInt for the source's null
getCoordinateAtPercentage(coordinates, percentage) ==
  IF \/ Len(coordinates) = 0
     \/ (percentage.den > 0 /\ percentage.num < 0)
     \/ (percentage.den > 0 /\ percentage.num > percentage.den)
  THEN NullInt
  ELSE LET total == CumulativeDistance(coordinates, Len(coordinates))
           Hit == {i \in 2..Len(coordinates) :
                     /\ percentage.den > 0
                     /\ CumulativeDistance(coordinates, i) * percentage.den
                          >= total * percentage.num}
       IN IF Hit # {}
          THEN (CHOOSE i \in Hit : \A k \in Hit : i <= k) - 1
          ELSE Len(coordinates) - 1

RECURSIVE SumDistance(_, _)
SumDistance(splits, i) ==
  IF i > Len(splits) THEN 0
  ELSE splits[i].distance + SumDistance(splits, i + 1)

\* variant that forgets the distance of the splits already passed
RECURSIVE WalkSplits_NoPrior(_, _, _, _, _)
WalkSplits_NoPrior(splits, i, elapsedSeconds, cumulativeTime, cumulativeDistance) ==
  IF i > Len(splits) THEN [num |-> 1, den |-> 1]
  ELSE LET split == splits[i]
           cumTime == cumulativeTime + split.elapsed_time
       IN IF elapsedSeconds <= cumTime
          THEN LET timeIntoSplit == elapsedSeconds - cumulativeTime
               IN [num |-> split.distance * timeIntoSplit,
                   den |-> split.elapsed_time * SumDistance(splits, 1)]
          ELSE WalkSplits_NoPrior(splits, i + 1, elapsedSeconds, cumTime,
                                  cumulativeDistance + split.distance)

\* the second loop of calculatePercentageWithSplits, from split i on
RECURSIVE WalkSplits(_, _, _, _, _)
WalkSplits(splits, i, elapsedSeconds, cumulativeTime, cumulativeDistance) ==
  IF i > Len(splits) THEN [num |-> 1, den |-> 1]
  ELSE LET split == splits[i]
           cumTime == cumulativeTime + split.elapsed_time
       IN IF elapsedSeconds <= cumTime
          THEN LET timeIntoSplit == elapsedSeconds - cumulativeTime
               IN [num |-> cumulativeDistance * split.elapsed_time
                             + split.distance * timeIntoSplit,
                   den |-> split.elapsed_time * SumDistance(splits, 1)]
          ELSE WalkSplits(splits, i + 1, elapsedSeconds, cumTime,
                          cumulativeDistance + split.distance)

calculatePercentageWithSplits(songTimestamp, runStartMs, splits) ==
  WalkSplits(splits, 1, songTimestamp - runStartMs, 0, 0)

\* Math.max(0, Math.min(1, x)) of x = num/den
Clamp(num, den) ==
  IF den = 0 THEN [num |-> num, den |-> 0]
  ELSE IF num < 0 THEN [num |-> 0, den |-> 1]
  ELSE IF num > den THEN [num |-> 1, den |-> 1]
  ELSE [num |-> num, den |-> den]

mapOneSong(song, runStart, runDuration, coordinates, splits) ==
  LET uniform == Clamp(song.played_at - runStart, runDuration)
      percentageComplete ==
        IF Len(splits) > 0
        THEN calculatePercentageWithSplits(song.played_at, runStart, splits)
        ELSE uniform
  IN [track |-> song.track, played_at |-> song.played_at,
      percentage_complete |-> percentageComplete,
      coordinate_index |-> getCoordinateAtPercentage(coordinates, percentageComplete)]

\* variant of the loop whose filter drops the event at the window end
RECURSIVE mapSongsRec_Exclusive(_, _, _, _, _, _)
mapSongsRec_Exclusive(songs, i, runStart, runDuration, coordinates, splits) ==
  IF i > Len(songs) THEN << >>
  ELSE LET song == songs[i]
           rest == mapSongsRec_Exclusive(songs, i + 1, runStart, runDuration,
                                         coordinates, splits)
       IN IF song.played_at < runStart THEN rest
          ELSE IF song.played_at >= runStart + runDuration THEN rest
          ELSE <<mapOneSong(song, runStart, runDuration, coordinates, splits)>> \o rest

\* variant of the loop that prepends each mapped event
RECURSIVE mapSongsRec_Reversed(_, _, _, _, _, _)
mapSongsRec_Reversed(songs, i, runStart, runDuration, coordinates, splits) ==
  IF i > Len(songs) THEN << >>
  ELSE LET song == songs[i]
           rest == mapSongsRec_Reversed(songs, i + 1, runStart, runDuration,
                                        coordinates, splits)
       IN IF song.played_at < runStart THEN rest
          ELSE IF song.played_at > runStart + runDuration THEN rest
          ELSE rest \o <<mapOneSong(song, runStart, runDuration, coordinates, splits)>>

\* the for loop of mapSongsToRoute
RECURSIVE mapSongsRec(_, _, _, _, _, _)
mapSongsRec(songs, i, runStart, runDuration, coordinates, splits) ==
  IF i > Len(songs) THEN << >>
  ELSE LET song == songs[i]
           rest == mapSongsRec(songs, i + 1, runStart, runDuration, coordinates, splits)
       IN IF song.played_at < runStart THEN rest
          ELSE IF song.played_at > runStart + runDuration THEN rest
          ELSE <<mapOneSong(song, runStart, runDuration, coordinates, splits)>> \o rest

mapSongsToRoute(songs, runStartTime, runDuration, coordinates, splits) ==
  mapSongsRec(songs, 1, runStartTime, runDuration, coordinates, splits)

\* ------------------------------------------------- processing_jobs queue
Range(f) == {f[i] : i \in DOMAIN f}

\* variants of the job INSERT: schema-default priority / a webhook_event_id
\* that is not the id the audit INSERT returned
NewJob_DefaultPriority(userId, object_id, webhookEventId, t) ==
  [user_id |-> userId, activity_id |-> object_id,
   webhook_event_id |-> webhookEventId, status |-> "pending",
   priority |-> DefaultPriority, attempts |-> 0,
   max_retries |-> DefaultMaxRetries, error_message |-> NullText,
   result_data |-> NullInt, scheduled_for |-> t]

NewJob_NoEvent(userId, object_id, webhookEventId, t) ==
  [user_id |-> userId, activity_id |-> object_id,
   webhook_event_id |-> webhookEventId + 1, status |-> "pending",
   priority |-> WebhookPriority, attempts |-> 0,
   max_retries |-> DefaultMaxRetries, error_message |-> NullText,
   result_data |-> NullInt, scheduled_for |-> t]

NewJob(userId, object_id, webhookEventId, t) ==
  [user_id |-> userId, activity_id |-> object_id,
   webhook_event_id |-> webhookEventId, status |-> "pending",
   priority |-> WebhookPriority, attempts |-> 0,
   max_retries |-> DefaultMaxRetries, error_message |-> NullText,
   result_data |-> NullInt, scheduled_for |-> t]

\* variants of the lock's WHERE clause: no status condition / failed included
LockMatches_NoStatus(job) == TRUE

LockMatches_Failed(job) == job.status \in {"pending", "retry", "failed"}

\* WHERE clause of the lock UPDATE of processJob
LockMatches(job) == job.status \in {"pending", "retry"}

\* SET clause of the lock UPDATE of processJob
LockedRow(job) ==
  [job EXCEPT !.status = "processing", !.attempts = @ + 1]

ShouldRetry_Inclusive(job) == job.attempts <= job.max_retries

ShouldRetry(job) == job.attempts < job.max_retries

retryDelayMinutes(attempts) == 2 ^ attempts

\* variant of the catch block without the terminal branch
FailOrRetry_NoTerminal(job, message, t) ==
  IF job.attempts < job.max_retries
  THEN [job EXCEPT !.status = "retry", !.error_message = message,
                   !.scheduled_for = t + 2 ^ job.attempts]
  ELSE job

\* the catch block of processJob: retry with backoff, or fail for good
FailOrRetry(job, message, t) ==
  IF ShouldRetry(job)
  THEN [job EXCEPT !.status = "retry", !.error_message = message,
                   !.scheduled_for = t + retryDelayMinutes(job.attempts)]
  ELSE [job EXCEPT !.status = "failed", !.error_message = message]

CompletedRow(job) == [job EXCEPT !.status = "completed"]

\* variant of the SELECT that leaves retry jobs out
Eligible_PendingOnly(jobs, t) ==
  {id \in DOMAIN jobs : /\ jobs[id].status = "pending"
                        /\ jobs[id].scheduled_for <= t}

\* WHERE clause of the SELECT of processPendingJobs
Eligible(jobs, t) ==
  {id \in DOMAIN jobs : /\ jobs[id].status \in {"pending", "retry"}
                        /\ jobs[id].scheduled_for <= t}

\* ORDER BY priority DESC, scheduled_for ASC (strictly before)
OrderedBefore(a, b) ==
  \/ a.priority > b.priority
  \/ (a.priority = b.priority /\ a.scheduled_for < b.scheduled_for)

\* variant of the SELECT without the LIMIT
SelectPending_Unlimited(jobs, t, limit) ==
  LET E == Eligible(jobs, t)
      n == Cardinality(E)
  IN {s \in [1..n -> E] :
        /\ \A i, k \in 1..n : i < k => s[i] # s[k]
        /\ \A i, k \in 1..n : i < k => ~OrderedBefore(jobs[s[k]], jobs[s[i]])}

\* every result the SELECT ... ORDER BY ... LIMIT may return (ties in the
\* ordering are returned in any order)
SelectPending(jobs, t, limit) ==
  LET E == Eligible(jobs, t)
      n == IF Cardinality(E) < limit THEN Cardinality(E) ELSE limit
  IN {s \in [1..n -> E] :
        /\ \A i, k \in 1..n : i < k => s[i] # s[k]
        /\ \A i, k \in 1..n : i < k => ~OrderedBefore(jobs[s[k]], jobs[s[i]])
        /\ \A e \in E \ Range(s) :
             \A i \in 1..n : ~OrderedBefore(jobs[e], jobs[s[i]])}

\* GET /api/jobs/process : COUNT(*) ... GROUP BY status
QueueStats(jobs, status) ==
  Cardinality({id \in DOMAIN jobs : jobs[id].status = status})

\* ------------------------------------------------ persistence statements
ActivityRows(rows, stravaId) == {a \in rows : a.strava_activity_id = stravaId}

\* INSERT INTO activities ... ON CONFLICT (strava_activity_id) DO UPDATE
\* returns [rows, id, seq]
UpsertActivity(rows, seq, userId, act) ==
  IF ActivityRows(rows, act.id) # {}
  THEN LET old == CHOOSE a \in ActivityRows(rows, act.id) : TRUE
       IN [rows |-> (rows \ {old}) \cup
                      {[old EXCEPT !.start_date = act.start_date,
                                   !.elapsed_time = act.elapsed_time]},
           id |-> old.id, seq |-> seq + 1]
  ELSE [rows |-> rows \cup {[id |-> seq + 1, user_id |-> userId,
                             strava_activity_id |-> act.id,
                             start_date |-> act.start_date,
                             elapsed_time |-> act.elapsed_time]},
        id |-> seq + 1, seq |-> seq + 1]

SongRows(rows, activityId, song) ==
  {r \in rows : /\ r.activity_id = activityId
                /\ r.spotify_track_id = song.track
                /\ r.played_at = song.played_at}

\* coordinate_index: song.coordinate_index || null
IndexOrNull(idx) == IF idx = 0 THEN NullInt ELSE idx

\* variant that replaces the row on conflict instead of updating it
UpsertSong_Reinsert(rows, seq, activityId, song) ==
  [rows |-> {r \in rows : ~(/\ r.activity_id = activityId
                            /\ r.spotify_track_id = song.track
                            /\ r.played_at = song.played_at)} \cup
              {[id |-> seq + 1, activity_id |-> activityId,
                spotify_track_id |-> song.track,
                played_at |-> song.played_at,
                percentage_complete |-> song.percentage_complete,
                coordinate_index |-> IF song.coordinate_index = 0 THEN NullInt
                                     ELSE song.coordinate_index]},
   seq |-> seq + 1]

\* INSERT INTO activity_songs ... ON CONFLICT (activity_id,
\* spotify_track_id, played_at) DO UPDATE ; returns [rows, seq]
UpsertSong(rows, seq, activityId, song) ==
  IF SongRows(rows, activityId, song) # {}
  THEN LET old == CHOOSE r \in SongRows(rows, activityId, song) : TRUE
       IN [rows |-> (rows \ {old}) \cup
                      {[old EXCEPT
                          !.percentage_complete = song.percentage_complete,
                          !.coordinate_index = IndexOrNull(song.coordinate_index)]},
           seq |-> seq + 1]
  ELSE [rows |-> rows \cup
                   {[id |-> seq + 1, activity_id |-> activityId,
                     spotify_track_id |-> song.track,
                     played_at |-> song.played_at,
                     percentage_complete |-> song.percentage_complete,
                     coordinate_index |-> IndexOrNull(song.coordinate_index)]},
        seq |-> seq + 1]

\* variant: the DELETE matches no row
DeleteActivity_Keep(acts, stravaId) == acts

\* DELETE FROM activities WHERE strava_activity_id = $1, with the
\* ON DELETE CASCADE of activity_songs.activity_id
DeleteActivity(acts, stravaId) == acts \ ActivityRows(acts, stravaId)

CascadeSongs(acts, songs, stravaId) ==
  {r \in songs : r.activity_id \notin {a.id : a \in ActivityRows(acts, stravaId)}}

\* what processActivityJob computes for a job before it writes anything
MappedSongsOf(aid) ==
  LET activity == StravaActivity(aid)
  IN mapSongsToRoute(getRecentlyPlayed(activity.start_date - FetchLeadSeconds),
                     activity.start_date, activity.elapsed_time,
                     decodePolyline(activity.polyline),
                     activity.splits_metric)

\* ------------------------------------------------- token management
\* (ensureValidToken, storeAuthTokens, getValidToken)
\* Token times are minutes on the axis of now; the providers' expires_in
\* is in seconds.
FiveMinutes == 5

SecondsPerMinute == 60

\* new Date(t + expiresIn * 1000), in minutes
ExpiryAfter(t, expiresIn) == t + expiresIn \div SecondsPerMinute

\* SELECT * FROM auth_tokens WHERE user_id = $1 AND provider = $2
TokenRows(rows, userId, provider) ==
  {r \in rows : r.user_id = userId /\ r.provider = provider}

\* variant of the expiry test with twice the buffer
StillValid_DoubleBuffer(tokenData, t) ==
  tokenData.expires_at > t + 2 * FiveMinutes

\* expiresAt > fiveMinutesFromNow
StillValid(tokenData, t) == tokenData.expires_at > t + FiveMinutes

\* variant: a refresh is attempted without a stored refresh token
CanRefresh_Always(tokenData) == TRUE

\* the negation of !tokenData.refresh_token
CanRefresh(tokenData) == tokenData.refresh_token # NullText

\* COALESCE($2, refresh_token)
Coalesce(value, stored) == IF value # NullText THEN value ELSE stored

\* variant of the UPDATE without COALESCE
RefreshedRow_Overwrite(row, newTokenData, newExpiresAt) ==
  [row EXCEPT !.access_token = newTokenData.access_token,
              !.refresh_token = newTokenData.refresh_token,
              !.expires_at = newExpiresAt]

\* UPDATE auth_tokens SET access_token = $1,
\*   refresh_token = COALESCE($2, refresh_token), expires_at = $3
RefreshedRow(row, newTokenData, newExpiresAt) ==
  [row EXCEPT !.access_token = newTokenData.access_token,
              !.refresh_token = Coalesce(newTokenData.refresh_token, @),
              !.expires_at = newExpiresAt]

UpdateTokens(rows, userId, provider, newTokenData, newExpiresAt) ==
  {IF r \in TokenRows(rows, userId, provider)
   THEN RefreshedRow(r, newTokenData, newExpiresAt) ELSE r : r \in rows}

\* INSERT INTO auth_tokens ... ON CONFLICT (user_id, provider) DO UPDATE
UpsertTokens(rows, userId, provider, accessToken, refreshToken, expiresAt) ==
  IF TokenRows(rows, userId, provider) = {}
  THEN rows \cup {[user_id |-> userId, provider |-> provider,
                   access_token |-> accessToken,
                   refresh_token |-> refreshToken, expires_at |-> expiresAt]}
  ELSE {IF r \in TokenRows(rows, userId, provider)
        THEN [r EXCEPT !.access_token = accessToken,
                       !.refresh_token = Coalesce(refreshToken, @),
                       !.expires_at = expiresAt]
        ELSE r : r \in rows}

\* no token response received
NoTokenData ==
  [access_token |-> NullText, refresh_token |-> NullText, expires_in |-> NullInt]

\* a caller outside getValidToken
TmIdle ==
  [pc |-> "idle", userId |-> 0, provider |-> NullText, now |-> 0,
   newTokenData |-> NoTokenData, accessToken |-> NullText,
   expiresAt |-> NullInt, error |-> NullText]

\* no call of mapSongsToRoute yet
NotMapped ==
  [songs |-> << >>, runStartTime |-> 0, runDuration |-> 0,
   coordinates |-> << >>, splits |-> << >>, called |-> FALSE,
   mappedSongs |-> << >>]

\* no handshake request answered yet: n counts the requests answered, mode /
\* token / asked are the last request's parameters, expected the token of
\* the row the query returned, status / challenge the answer
NoVerification ==
  [n |-> 0, mode |-> NullText, token |-> NullText, asked |-> NullText,
   expected |-> NullText, status |-> 0, challenge |-> NullText]

\* no call of cleanupOldJobs yet
NotCleaned ==
  [before |-> {}, jobs |-> {}, daysOld |-> 0, called |-> FALSE,
   rowCount |-> 0]

\* ------------------------------------------------------------------ Init
NoBody ==
  [object_type |-> NullText, object_id |-> 0, aspect_type |-> NullText,
   owner_id |-> 0, event_time |-> NullInt]

Idle == [c \in Claimants |-> "idle"]

Init ==
  /\ now = 0
  /\ processing_jobs = << >>
  /\ webhook_events = << >>
  /\ activities = {}
  /\ activity_songs = {}
  /\ activities_seq = 0
  /\ songs_seq = 0
  /\ pc = Idle
  /\ sel = [c \in Claimants |-> << >>]
  /\ processed = [c \in Claimants |-> 0]
  /\ dbActivityId = [c \in Claimants |-> 0]
  /\ songIdx = [c \in Claimants |-> 0]
  /\ manual = [pc |-> "idle", activityId |-> 0, dbId |-> 0, idx |-> 0,
               runs |-> 0, before |-> {}]
  /\ response = [status |-> 0, success |-> FALSE, body |-> NoBody]
  /\ auth_tokens = {}
  /\ tm = [c \in Claimants |-> TmIdle]
  /\ mapped = NotMapped
  /\ webhook_subscriptions = {}
  /\ verification = NoVerification
  /\ cleanup = NotCleaned

\* ------------------------------------------------------- webhook POST
\* variant of the validation that forgets owner_id
MissingRequired_NoOwner(body) ==
  \/ body.object_type = NullText
  \/ body.object_id = 0
  \/ body.aspect_type = NullText

\* the validation at the top of POST: a missing or falsy field
MissingRequired(body) ==
  \/ body.object_type = NullText
  \/ body.object_id = 0
  \/ body.aspect_type = NullText
  \/ body.owner_id = 0

\* webhook_events.event_time is NOT NULL and to_timestamp(NULL) is NULL
EventInsertFails(body) == body.event_time = NullInt

NewEvent(body) ==
  [object_type |-> body.object_type, object_id |-> body.object_id,
   aspect_type |-> body.aspect_type, owner_id |-> body.owner_id,
   event_time |-> body.event_time, processed |-> FALSE]

\* variant without the WHERE id = $1
MarkProcessed_All(events, id) ==
  [i \in DOMAIN events |-> [events[i] EXCEPT !.processed = TRUE]]

\* UPDATE webhook_events SET processed = true ... WHERE id = $1
MarkProcessed(events, id) == [events EXCEPT ![id].processed = TRUE]

\* the queries of POST in program order; a rejected query throws into the
\* catch block, which answers 200 / success false and undoes nothing
Queries == {"log", "lookup", "enqueue", "delete", "mark"}

NoFault == "none"

\* variant that answers a caught error with status 500
Answer_Failing(status, success, body) ==
  [status |-> IF success THEN status ELSE 500, success |-> success,
   body |-> body]

\* NextResponse.json({ success, ... }, { status })
Answer(status, success, body) ==
  [status |-> status, success |-> success, body |-> body]

\* rejects: the query that rejects during this request (NoFault: none does)
POST(body, rejects) ==
  /\ UNCHANGED <<now, tokenVars, cleanup, mapped, handshakeVars, pc, sel, processed, dbActivityId, songIdx, manual,
                 activities_seq, songs_seq>>
  /\ IF MissingRequired(body)
     THEN /\ response' = Answer(400, FALSE, body)
          /\ UNCHANGED <<webhook_events, processing_jobs, activities, activity_songs>>
     ELSE IF EventInsertFails(body) \/ rejects = "log"
     THEN \* the INSERT throws, the catch block answers 200 / success false
          /\ response' = Answer(200, FALSE, body)
          /\ UNCHANGED <<webhook_events, processing_jobs, activities, activity_songs>>
     ELSE LET logged == Append(webhook_events, NewEvent(body))
              webhookEventId == Len(logged)
          IN IF body.object_type = "activity" /\ body.aspect_type = "create"
             THEN IF rejects = "lookup"
                  THEN /\ webhook_events' = logged
                       /\ response' = Answer(200, FALSE, body)
                       /\ UNCHANGED <<processing_jobs, activities, activity_songs>>
                  ELSE IF UserOfAthlete(body.owner_id) = {}
                  THEN \* early return, before the UPDATE that marks the event
                       /\ webhook_events' = logged
                       /\ response' = Answer(200, TRUE, body)
                       /\ UNCHANGED <<processing_jobs, activities, activity_songs>>
                  ELSE IF rejects = "enqueue"
                  THEN /\ webhook_events' = logged
                       /\ response' = Answer(200, FALSE, body)
                       /\ UNCHANGED <<processing_jobs, activities, activity_songs>>
                  ELSE /\ processing_jobs' =
                            Append(processing_jobs,
                                   NewJob(CHOOSE u \in UserOfAthlete(body.owner_id) : TRUE,
                                          body.object_id, webhookEventId, now))
                       /\ webhook_events' =
                            IF rejects = "mark" THEN logged
                            ELSE MarkProcessed(logged, webhookEventId)
                       /\ response' = Answer(200, rejects # "mark", body)
                       /\ UNCHANGED <<activities, activity_songs>>
             ELSE IF body.object_type = "activity" /\ body.aspect_type = "delete"
             THEN IF rejects = "delete"
                  THEN /\ webhook_events' = logged
                       /\ response' = Answer(200, FALSE, body)
                       /\ UNCHANGED <<processing_jobs, activities, activity_songs>>
                  ELSE /\ activities' = DeleteActivity(activities, body.object_id)
                       /\ activity_songs' =
                            CascadeSongs(activities, activity_songs, body.object_id)
                       /\ webhook_events' =
                            IF rejects = "mark" THEN logged
                            ELSE MarkProcessed(logged, webhookEventId)
                       /\ response' = Answer(200, rejects # "mark", body)
                       /\ UNCHANGED processing_jobs
             ELSE /\ webhook_events' =
                       IF rejects = "mark" THEN logged
                       ELSE MarkProcessed(logged, webhookEventId)
                  /\ response' = Answer(200, rejects # "mark", body)
                  /\ UNCHANGED <<processing_jobs, activities, activity_songs>>

\* ------------------------------------------- processPendingJobs / processJob
Holding == {"work", "upsertActivity", "upsertSongs", "result", "complete"}

CurrentJob(c) == Head(sel[c])

\* processJob has returned: processed++ and the loop moves on
Return(c) ==
  /\ processed' = [processed EXCEPT ![c] = @ + 1]
  /\ sel' = [sel EXCEPT ![c] = Tail(@)]
  /\ pc' = [pc EXCEPT ![c] = IF Len(sel[c]) = 1 THEN "idle" ELSE "lock"]
  /\ dbActivityId' = [dbActivityId EXCEPT ![c] = 0]
  /\ songIdx' = [songIdx EXCEPT ![c] = 0]

\* the SELECT of processPendingJobs
Invoke(c, limit) ==
  /\ pc[c] = "idle"
  /\ \E s \in SelectPending(processing_jobs, now, limit) :
       /\ sel' = [sel EXCEPT ![c] = s]
       /\ pc' = [pc EXCEPT ![c] = IF Len(s) = 0 THEN "idle" ELSE "lock"]
  /\ processed' = [processed EXCEPT ![c] = 0]
  /\ UNCHANGED <<now, tokenVars, cleanup, mapped, handshakeVars, processing_jobs, webhook_events, storeVars,
                 dbActivityId, songIdx, manual, response>>

\* the lock UPDATE of processJob and the early return on zero rows
Lock(c) ==
  /\ pc[c] = "lock"
  /\ LET id == CurrentJob(c)
     IN IF LockMatches(processing_jobs[id])
        THEN /\ processing_jobs' =
                  [processing_jobs EXCEPT ![id] = LockedRow(@)]
             /\ pc' = [pc EXCEPT ![c] = "work"]
             /\ UNCHANGED <<sel, processed, dbActivityId, songIdx>>
        ELSE /\ Return(c)
             /\ UNCHANGED processing_jobs
  /\ UNCHANGED <<now, tokenVars, cleanup, mapped, handshakeVars, webhook_events, storeVars, manual, response>>

\* an exception inside the try block, handled by the catch block
Throw(c, message) ==
  /\ pc[c] \in Holding
  /\ processing_jobs' =
       [processing_jobs EXCEPT ![CurrentJob(c)] = FailOrRetry(@, message, now)]
  /\ Return(c)
  /\ UNCHANGED <<now, tokenVars, cleanup, mapped, handshakeVars, webhook_events, storeVars, manual, response>>

\* getValidTokens, getActivity or getRecentlyPlayed rejects
FetchFail(c) ==
  /\ pc[c] = "work"
  /\ Throw(c, "upstream error")

\* a statement of the try block after the fetch rejects
DbFail(c) ==
  /\ pc[c] \in Holding \ {"work"}
  /\ Throw(c, "database error")

\* variant of the skip test without the polyline check
Skipped_NotRunOnly(activity) == activity.type \notin {"Run", "VirtualRun"}

\* the two early returns of processActivityJob: not a run, no polyline data
Skipped(activity) ==
  activity.type \notin {"Run", "VirtualRun"} \/ activity.polyline = NullText

\* processActivityJob up to and including mapSongsToRoute
Fetch(c) ==
  /\ pc[c] = "work"
  /\ LET job == processing_jobs[CurrentJob(c)]
         activity == StravaActivity(job.activity_id)
     IN /\ UpstreamExists(job.activity_id)
        /\ IF Skipped(activity)
           THEN /\ pc' = [pc EXCEPT ![c] = "complete"]
                /\ UNCHANGED <<processing_jobs, sel, processed, dbActivityId, songIdx>>
           ELSE IF Len(decodePolyline(activity.polyline)) = 0
           THEN /\ processing_jobs' =
                     [processing_jobs EXCEPT ![CurrentJob(c)] =
                        FailOrRetry(@, "Failed to decode polyline", now)]
                /\ Return(c)
           ELSE /\ pc' = [pc EXCEPT ![c] = "upsertActivity"]
                /\ UNCHANGED <<processing_jobs, sel, processed, dbActivityId, songIdx>>
  /\ UNCHANGED <<now, tokenVars, cleanup, mapped, handshakeVars, webhook_events, storeVars, manual, response>>

StoreActivity(c) ==
  /\ pc[c] = "upsertActivity"
  /\ LET job == processing_jobs[CurrentJob(c)]
         r == UpsertActivity(activities, activities_seq, job.user_id,
                             StravaActivity(job.activity_id))
     IN /\ activities' = r.rows
        /\ activities_seq' = r.seq
        /\ dbActivityId' = [dbActivityId EXCEPT ![c] = r.id]
        /\ songIdx' = [songIdx EXCEPT ![c] = 1]
        /\ pc' = [pc EXCEPT ![c] =
                    IF Len(MappedSongsOf(job.activity_id)) = 0
                    THEN "result" ELSE "upsertSongs"]
  /\ UNCHANGED <<now, tokenVars, cleanup, mapped, handshakeVars, processing_jobs, webhook_events, activity_songs,
                 songs_seq, sel, processed, manual, response>>

StoreSong(c) ==
  /\ pc[c] = "upsertSongs"
  /\ dbActivityId[c] \in {a.id : a \in activities}   \* foreign key
  /\ LET job == processing_jobs[CurrentJob(c)]
         mappedSongs == MappedSongsOf(job.activity_id)
         r == UpsertSong(activity_songs, songs_seq, dbActivityId[c],
                         mappedSongs[songIdx[c]])
     IN /\ activity_songs' = r.rows
        /\ songs_seq' = r.seq
        /\ songIdx' = [songIdx EXCEPT ![c] = @ + 1]
        /\ pc' = [pc EXCEPT ![c] =
                    IF songIdx[c] = Len(mappedSongs) THEN "result" ELSE "upsertSongs"]
  /\ UNCHANGED <<now, tokenVars, cleanup, mapped, handshakeVars, processing_jobs, webhook_events, activities,
                 activities_seq, sel, processed, dbActivityId, manual, response>>

StoreResult(c) ==
  /\ pc[c] = "result"
  /\ LET id == CurrentJob(c)
     IN processing_jobs' =
          [processing_jobs EXCEPT ![id].result_data =
             Len(MappedSongsOf(processing_jobs[id].activity_id))]
  /\ pc' = [pc EXCEPT ![c] = "complete"]
  /\ UNCHANGED <<now, tokenVars, cleanup, mapped, handshakeVars, webhook_events, storeVars, sel, processed,
                 dbActivityId, songIdx, manual, response>>

Complete(c) ==
  /\ pc[c] = "complete"
  /\ processing_jobs' =
       [processing_jobs EXCEPT ![CurrentJob(c)] = CompletedRow(@)]
  /\ Return(c)
  /\ UNCHANGED <<now, tokenVars, cleanup, mapped, handshakeVars, webhook_events, storeVars, manual, response>>

Tick ==
  /\ now < MaxTime
  /\ now' = now + 1
  /\ UNCHANGED <<processing_jobs, webhook_events, storeVars, pc, sel,
                 processed, dbActivityId, songIdx, manual, response, tokenVars, cleanup,
                 mapped, handshakeVars>>

\* --------------------------------------------------------- specifications
\* notifications the queue specification receives: creations, by the known
\* owner, of an activity that never fetches (2) and of one that is skipped (3)
QueueBodies ==
  [object_type : {"activity"}, object_id : {2, 3}, aspect_type : {"create"},
   owner_id : {7}, event_time : {5}]

Bounded == Len(processing_jobs) < MaxJobs /\ Len(webhook_events) < MaxEvents

Next ==
  \/ \E body \in QueueBodies : Bounded /\ POST(body, NoFault)
  \/ \E c \in Claimants : \E limit \in {1, DefaultLimit} : Invoke(c, limit)
  \/ \E c \in Claimants : Lock(c)
  \/ \E c \in Claimants : Fetch(c)
  \/ \E c \in Claimants : FetchFail(c)
  \/ \E c \in Claimants : DbFail(c)
  \/ \E c \in Claimants : Complete(c)
  \/ Tick

Spec == Init /\ [][Next]_vars

\* ------------------------------------------------------------ properties
JobIds == DOMAIN processing_jobs

C3_VisibilityRespected ==
  [][\A id \in JobIds :
       (processing_jobs[id].status \in {"pending", "retry"}
          /\ processing_jobs'[id].status = "processing")
         => processing_jobs[id].scheduled_for <= now]_vars

StatusEdges ==
  { <<"pending", "processing">>, <<"retry", "processing">>,
    <<"processing", "completed">>, <<"processing", "retry">>,
    <<"processing", "failed">> }

C5_AttemptsBounded ==
  \A id \in JobIds :
    processing_jobs[id].status \in {"pending", "retry", "processing"} =>
      processing_jobs[id].attempts <= processing_jobs[id].max_retries

\* a job in its last permitted attempt
C5_Witness ==
  \E id \in JobIds :
    /\ processing_jobs[id].status = "processing"
    /\ processing_jobs[id].attempts = processing_jobs[id].max_retries

\* C6: backoff schedule. Each of the first three failures of a job puts it
\* into retry, visible again 2^attempts minutes after the failure, with the
\* error recorded; only a later failure is terminal.
C6_BackoffSchedule ==
  [][\A id \in JobIds :
       (/\ processing_jobs[id].status = "processing"
        /\ processing_jobs'[id].status \notin {"processing", "completed"}
        /\ processing_jobs[id].attempts <= 3)
         => /\ processing_jobs'[id].status = "retry"
            /\ processing_jobs'[id].scheduled_for
                 = now + 2 ^ processing_jobs[id].attempts
            /\ processing_jobs'[id].error_message # NullText]_vars

\* ------------------------------------------- liveness under fair scheduling
\* The claimants are invoked by a periodic trigger: a job that is due is
\* picked up before the clock moves on, and every started statement
\* finishes. Notifications arrive early enough for the whole backoff
\* schedule to fit below MaxTime.
BackoffBudget == retryDelayMinutes(1) + retryDelayMinutes(2)

AllIdle == \A c \in Claimants : pc[c] = "idle"

TickQuiet == AllIdle /\ Eligible(processing_jobs, now) = {} /\ Tick

NextLive ==
  \/ \E body \in QueueBodies :
       Bounded /\ now + BackoffBudget <= MaxTime /\ POST(body, NoFault)
  \/ \E c \in Claimants : \E limit \in {1, DefaultLimit} : Invoke(c, limit)
  \/ \E c \in Claimants : Lock(c)
  \/ \E c \in Claimants : Fetch(c)
  \/ \E c \in Claimants : FetchFail(c)
  \/ \E c \in Claimants : DbFail(c)
  \/ \E c \in Claimants : Complete(c)
  \/ TickQuiet

Fairness ==
  /\ WF_vars(TickQuiet)
  /\ \A c \in Claimants :
       /\ WF_vars(\E limit \in {1, DefaultLimit} : Invoke(c, limit))
       /\ WF_vars(Lock(c))
       /\ WF_vars(Fetch(c) \/ FetchFail(c))
       /\ WF_vars(Complete(c) \/ DbFail(c))

SpecLive == Init /\ [][NextLive]_vars /\ Fairness

Exhausted(id) ==
  /\ id \in JobIds
  /\ processing_jobs[id].status = "failed"
  /\ processing_jobs[id].attempts = 3
  /\ processing_jobs[id].error_message = "upstream error"
  /\ QueueStats(processing_jobs, "failed") >= 1

\* C7: retry exhaustion. A job whose fetch errors on every attempt
\* (activity 2) eventually is, and stays, failed after exactly 3 attempts,
\* with the error's message kept, and is counted under failed by the
\* queue statistics.
C7_RetryExhaustion ==
  \A id \in 1..MaxJobs :
    (id \in JobIds /\ processing_jobs[id].activity_id = 2) ~> [](Exhausted(id))

C7_Witness ==
  \E id \in JobIds :
    /\ processing_jobs[id].activity_id = 2
    /\ Exhausted(id)
    /\ AllIdle

\* ------------------------------------------- persistence by the job executor
MaxStoreJobs == 1

\* creations of activity 1 (a run with GPS data and songs) by the known owner
StoreBodies ==
  [object_type : {"activity"}, object_id : {1}, aspect_type : {"create"},
   owner_id : {7}, event_time : {5}]

NextStore ==
  \/ \E body \in StoreBodies : Len(processing_jobs) < MaxStoreJobs /\ POST(body, NoFault)
  \/ \E c \in Claimants : \E limit \in {1, DefaultLimit} : Invoke(c, limit)
  \/ \E c \in Claimants : Lock(c)
  \/ \E c \in Claimants : Fetch(c)
  \/ \E c \in Claimants : FetchFail(c)
  \/ \E c \in Claimants : DbFail(c)
  \/ \E c \in Claimants : StoreActivity(c)
  \/ \E c \in Claimants : StoreSong(c)
  \/ \E c \in Claimants : StoreResult(c)
  \/ \E c \in Claimants : Complete(c)

SpecStore == Init /\ [][NextStore]_vars

SongKey(r) == <<r.activity_id, r.spotify_track_id, r.played_at>>

UniqueRows ==
  /\ \A a1, a2 \in activities :
       a1.strava_activity_id = a2.strava_activity_id => a1 = a2
  /\ \A r1, r2 \in activity_songs : SongKey(r1) = SongKey(r2) => r1 = r2

\* the rows a finished run of the job for strava activity aid leaves
RunPersisted(aid) ==
  \E a \in activities :
    /\ a.strava_activity_id = aid
    /\ {<<r.spotify_track_id, r.played_at, r.percentage_complete>> :
          r \in {x \in activity_songs : x.activity_id = a.id}}
       = {<<m.track, m.played_at, m.percentage_complete>> :
          m \in Range(MappedSongsOf(aid))}

\* C8: idempotent job processing. There is one activity row per subject and
\* one song row per (activity, track, played_at); a completed run leaves
\* exactly the mapped songs of the activity; and no step of any run removes
\* a row or changes the id under which a row is stored, so a second run
\* leaves the rows and ids of the first.
C8_IdempotentJob ==
  /\ [](UniqueRows)
  /\ [](\A id \in JobIds :
          (processing_jobs[id].status = "completed"
             /\ processing_jobs[id].result_data # NullInt)
            => RunPersisted(processing_jobs[id].activity_id))
  /\ [][/\ \A a \in activities : \E b \in activities' :
             b.id = a.id /\ b.strava_activity_id = a.strava_activity_id
        /\ \A r \in activity_songs : \E q \in activity_songs' :
             q.id = r.id /\ SongKey(q) = SongKey(r)]_vars

\* the job for activity 1 has stored its songs in two executions (the first
\* one failed after storing them) and is completed
C8_Witness ==
  \E id \in JobIds :
    /\ processing_jobs[id].activity_id = 1
    /\ processing_jobs[id].status = "completed"
    /\ processing_jobs[id].attempts >= 2
    /\ processing_jobs[id].result_data = 2
    /\ Cardinality(activity_songs) = 2
    /\ songs_seq >= 4

\* ----------------------- manual reprocessing: POST /api/process-run
\* (saveActivityWithSongs of lib/db/activities.ts issues the same statements)
MaxManualRuns == 2

ManualVars == <<now, processing_jobs, webhook_events, pc, sel, processed,
                dbActivityId, songIdx, response, tokenVars, cleanup, mapped,
                handshakeVars>>

SongIdentities(rows, activityId) ==
  {<<r.id, r.spotify_track_id, r.played_at>> :
     r \in {x \in rows : x.activity_id = activityId}}

\* request received: fetch, decode, map, then SELECT id FROM activities
ManualBegin(activityId) ==
  /\ manual.pc \in {"idle", "done", "failed"}
  /\ UpstreamExists(activityId)
  /\ StravaActivity(activityId).polyline # NullText
  /\ Len(decodePolyline(StravaActivity(activityId).polyline)) > 0
  /\ LET existing == ActivityRows(activities, activityId)
         id == IF existing = {} THEN 0 ELSE (CHOOSE a \in existing : TRUE).id
     IN manual' = [pc |-> IF existing = {} THEN "insert" ELSE "update",
                   activityId |-> activityId, dbId |-> id, idx |-> 1,
                   runs |-> manual.runs + 1,
                   before |-> SongIdentities(activity_songs, id)]
  /\ UNCHANGED <<ManualVars, storeVars>>

AfterActivity == IF Len(MappedSongsOf(manual.activityId)) = 0 THEN "done" ELSE "songs"

\* UPDATE activities SET ... WHERE id = $8
ManualUpdate ==
  /\ manual.pc = "update"
  /\ activities' =
       {IF a.id = manual.dbId
        THEN [a EXCEPT !.start_date = StravaActivity(manual.activityId).start_date,
                       !.elapsed_time = StravaActivity(manual.activityId).elapsed_time]
        ELSE a : a \in activities}
  /\ manual' = [manual EXCEPT !.pc = "deleteSongs"]
  /\ UNCHANGED <<ManualVars, activity_songs, activities_seq, songs_seq>>

\* DELETE FROM activity_songs WHERE activity_id = $1
ManualDeleteSongs ==
  /\ manual.pc = "deleteSongs"
  /\ activity_songs' = {r \in activity_songs : r.activity_id # manual.dbId}
  /\ manual' = [manual EXCEPT !.pc = AfterActivity]
  /\ UNCHANGED <<ManualVars, activities, activities_seq, songs_seq>>

\* INSERT INTO activities ... RETURNING id (strava_activity_id is UNIQUE)
ManualInsert ==
  /\ manual.pc = "insert"
  /\ activities_seq' = activities_seq + 1
  /\ IF ActivityRows(activities, manual.activityId) # {}
     THEN /\ manual' = [manual EXCEPT !.pc = "failed"]
          /\ UNCHANGED activities
     ELSE /\ activities' = activities \cup
               {[id |-> activities_seq + 1, user_id |-> 1,
                 strava_activity_id |-> manual.activityId,
                 start_date |-> StravaActivity(manual.activityId).start_date,
                 elapsed_time |-> StravaActivity(manual.activityId).elapsed_time]}
          /\ manual' = [manual EXCEPT !.pc = AfterActivity,
                                      !.dbId = activities_seq + 1]
  /\ UNCHANGED <<ManualVars, activity_songs, songs_seq>>

\* INSERT INTO activity_songs ... (no ON CONFLICT clause); a foreign-key or
\* unique violation throws and the request answers 500
ManualInsertSong ==
  /\ manual.pc = "songs"
  /\ LET song == MappedSongsOf(manual.activityId)[manual.idx]
         last == manual.idx = Len(MappedSongsOf(manual.activityId))
     IN IF manual.dbId \notin {a.id : a \in activities}
        THEN /\ manual' = [manual EXCEPT !.pc = "failed"]
             /\ UNCHANGED <<activity_songs, songs_seq>>
        ELSE /\ songs_seq' = songs_seq + 1
             /\ IF SongRows(activity_songs, manual.dbId, song) # {}
                THEN /\ manual' = [manual EXCEPT !.pc = "failed"]
                     /\ UNCHANGED activity_songs
                ELSE /\ activity_songs' = activity_songs \cup
                          {[id |-> songs_seq + 1, activity_id |-> manual.dbId,
                            spotify_track_id |-> song.track,
                            played_at |-> song.played_at,
                            percentage_complete |-> song.percentage_complete,
                            coordinate_index |-> song.coordinate_index]}
                     /\ manual' = [manual EXCEPT
                                     !.pc = IF last THEN "done" ELSE "songs",
                                     !.idx = @ + 1]
  /\ UNCHANGED <<ManualVars, activities, activities_seq>>

\* any statement of the request rejects: the catch block answers 500
ManualFail ==
  /\ manual.pc \in {"update", "deleteSongs", "insert", "songs"}
  /\ manual' = [manual EXCEPT !.pc = "failed"]
  /\ UNCHANGED <<ManualVars, storeVars>>

NextManual ==
  \/ \E activityId \in {1} : manual.runs < MaxManualRuns /\ ManualBegin(activityId)
  \/ ManualUpdate
  \/ ManualDeleteSongs
  \/ ManualInsert
  \/ ManualInsertSong
  \/ ManualFail
  \/ \E body \in StoreBodies : Len(processing_jobs) < MaxStoreJobs /\ POST(body, NoFault)
  \/ \E c \in {"c1"} : \E limit \in {DefaultLimit} : Invoke(c, limit)
  \/ \E c \in {"c1"} : Lock(c)
  \/ \E c \in {"c1"} : Fetch(c)
  \/ \E c \in {"c1"} : FetchFail(c)
  \/ \E c \in {"c1"} : DbFail(c)
  \/ \E c \in {"c1"} : StoreActivity(c)
  \/ \E c \in {"c1"} : StoreSong(c)
  \/ \E c \in {"c1"} : StoreResult(c)
  \/ \E c \in {"c1"} : Complete(c)

SpecManual == Init /\ [][NextManual]_vars

\* C9: a manual reprocess that finishes leaves every song row the activity
\* had before it in place, under the same primary key, and stores no
\* (activity, track, played_at) twice.
C9_ManualKeepsIds ==
  /\ UniqueRows
  /\ manual.pc = "done" =>
       manual.before \subseteq SongIdentities(activity_songs, manual.dbId)

\* C34: concurrent executions for one subject. A job execution and a manual
\* reprocess of the same activity leave at most one activity row for it and
\* one song row per (activity, track, played_at), and the manual request
\* never fails on an INSERT because of a row the other execution wrote.
C34_ConcurrentExecutions ==
  /\ [](/\ UniqueRows
        /\ Cardinality(ActivityRows(activities, 1)) <= 1)
  /\ [][(manual.pc = "insert" /\ manual'.pc = "failed")
          => ActivityRows(activities, manual.activityId) = {}]_vars
  /\ [][(manual.pc = "songs" /\ manual'.pc = "failed")
          => SongRows(activity_songs, manual.dbId,
                      MappedSongsOf(manual.activityId)[manual.idx]) = {}]_vars

\* ------------------------------------------------------ webhook ingestion
\* notification bodies, with every required field present or missing
\* (owner 7 is known, owner 8 is not)
AllBodies ==
  [object_type : {"activity", NullText}, object_id : {0, 1},
   aspect_type : {"create", "update", "delete", NullText},
   owner_id : {0, 7, 8}, event_time : {NullInt, 5}]

\* the state after one successful manual run for activity 1
InitHook ==
  /\ now = 0
  /\ processing_jobs = << >>
  /\ webhook_events = << >>
  /\ activities = {[id |-> 1, user_id |-> 1, strava_activity_id |-> 1,
                    start_date |-> 3600, elapsed_time |-> 60]}
  /\ activity_songs =
       {[id |-> 1, activity_id |-> 1, spotify_track_id |-> "t1",
         played_at |-> 3600, percentage_complete |-> [num |-> 0, den |-> 60],
         coordinate_index |-> 1],
        [id |-> 2, activity_id |-> 1, spotify_track_id |-> "t2",
         played_at |-> 3630, percentage_complete |-> [num |-> 30, den |-> 60],
         coordinate_index |-> 2]}
  /\ activities_seq = 1
  /\ songs_seq = 2
  /\ pc = Idle
  /\ sel = [c \in Claimants |-> << >>]
  /\ processed = [c \in Claimants |-> 0]
  /\ dbActivityId = [c \in Claimants |-> 0]
  /\ songIdx = [c \in Claimants |-> 0]
  /\ manual = [pc |-> "done", activityId |-> 1, dbId |-> 1, idx |-> 3,
               runs |-> 1, before |-> {}]
  /\ response = [status |-> 0, success |-> FALSE, body |-> NoBody]
  /\ auth_tokens = {}
  /\ tm = [c \in Claimants |-> TmIdle]
  /\ mapped = NotMapped
  /\ webhook_subscriptions = {}
  /\ verification = NoVerification
  /\ cleanup = NotCleaned

NextHook ==
  \E body \in AllBodies : \E rejects \in Queries \cup {NoFault} :
    Len(webhook_events) < MaxEvents /\ POST(body, rejects)

SpecHook == InitHook /\ [][NextHook]_vars

Incomplete(body) ==
  \/ body.object_type = NullText
  \/ body.object_id = 0
  \/ body.aspect_type = NullText
  \/ body.owner_id = 0
  \/ body.event_time = NullInt

\* C10: handling a notification that lacks a required field (subject type,
\* subject id, change kind, owner id or occurrence time) writes no
\* webhook_events row, enqueues no job and deletes no activity.
C10_RejectIncomplete ==
  [][Incomplete(response'.body) =>
       UNCHANGED <<webhook_events, processing_jobs, activities, activity_songs>>]_vars

\* a delete notification for the stored activity 1 without occurrence time
\* has been answered and the activity is still stored
C10_Witness ==
  /\ response.status = 200
  /\ ~response.success
  /\ response.body.aspect_type = "delete"
  /\ response.body.object_id = 1
  /\ response.body.event_time = NullInt
  /\ ActivityRows(activities, 1) # {}

\* the row the handler wrote during the step, if it wrote one
EventWritten == Len(webhook_events') = Len(webhook_events) + 1

LastEvent == webhook_events'[Len(webhook_events')]

OlderEventsKept ==
  SubSeq(webhook_events', 1, Len(webhook_events)) = webhook_events

IsCreate(body) ==
  ~Incomplete(body) /\ body.object_type = "activity" /\ body.aspect_type = "create"

IsDelete(body) ==
  ~Incomplete(body) /\ body.object_type = "activity" /\ body.aspect_type = "delete"

\* C11: a create notification whose owner matches no user, answered with
\* success, has enqueued no job and has left the webhook_events row it
\* wrote marked processed.
C11_UnknownOwnerProcessed ==
  [][(/\ IsCreate(response'.body)
      /\ UserOfAthlete(response'.body.owner_id) = {}
      /\ response'.success)
       => /\ processing_jobs' = processing_jobs
          /\ EventWritten
          /\ LastEvent.processed]_vars

\* C12: a create notification whose owner is known, answered with success,
\* has appended exactly one job: pending, attempts 0, priority 10 (above the
\* default 0), scheduled_for = now, user_id the user of the owner,
\* activity_id the notified id, webhook_event_id the row just written; and
\* that row is marked processed only together with the job.
C12_OneJobPerCreate ==
  [][(/\ IsCreate(response'.body)
      /\ UserOfAthlete(response'.body.owner_id) # {}
      /\ response'.success \/ (EventWritten /\ LastEvent.processed))
       => /\ EventWritten
          /\ OlderEventsKept
          /\ LastEvent = [NewEvent(response'.body) EXCEPT !.processed = TRUE]
          /\ Len(processing_jobs') = Len(processing_jobs) + 1
          /\ SubSeq(processing_jobs', 1, Len(processing_jobs)) = processing_jobs
          /\ LET job == processing_jobs'[Len(processing_jobs')]
             IN /\ job.status = "pending"
                /\ job.attempts = 0
                /\ job.priority = 10
                /\ job.priority > DefaultPriority
                /\ job.scheduled_for = now
                /\ job.user_id \in UserOfAthlete(response'.body.owner_id)
                /\ job.activity_id = response'.body.object_id
                /\ job.webhook_event_id = Len(webhook_events')
          /\ UNCHANGED <<activities, activity_songs>>]_vars

\* the known owner's creation of activity 1 has been answered with success:
\* one pending job refers to the processed event
C12_Witness ==
  /\ response.success
  /\ IsCreate(response.body)
  /\ response.body.owner_id = 7
  /\ Len(processing_jobs) = 1
  /\ processing_jobs[1].status = "pending"
  /\ processing_jobs[1].webhook_event_id = Len(webhook_events)
  /\ webhook_events[Len(webhook_events)].processed

\* C13: a delete notification enqueues no job; when it is answered with
\* success, or its webhook_events row is marked processed, the activity
\* row of the notified id and its song rows are gone and every other
\* activity is kept.
C13_DeleteSynchronous ==
  [][IsDelete(response'.body)
       => /\ processing_jobs' = processing_jobs
          /\ (response'.success \/ (EventWritten /\ LastEvent.processed))
               => /\ EventWritten
                  /\ OlderEventsKept
                  /\ LastEvent = [NewEvent(response'.body) EXCEPT !.processed = TRUE]
                  /\ ActivityRows(activities', response'.body.object_id) = {}
                  /\ activities' =
                       {a \in activities :
                          a.strava_activity_id # response'.body.object_id}
                  /\ activity_songs' =
                       {r \in activity_songs :
                          r.activity_id \in {a.id : a \in activities'}}]_vars

\* the delete notification for the stored activity 1 has been answered with
\* success: the activity and its songs are gone, the event is processed
C13_Witness ==
  /\ response.success
  /\ IsDelete(response.body)
  /\ response.body.object_id = 1
  /\ activities = {}
  /\ activity_songs = {}
  /\ Len(webhook_events) = 1
  /\ webhook_events[1].processed
  /\ processing_jobs = << >>

\* C14: deduplication. No two jobs are enqueued for the same activity of
\* the same user, however often its create notification is delivered.
C14_Deduplicated ==
  \A j1, j2 \in JobIds :
    (/\ processing_jobs[j1].activity_id = processing_jobs[j2].activity_id
     /\ processing_jobs[j1].user_id = processing_jobs[j2].user_id)
      => j1 = j2

\* C15: audit before action. Every job refers to an existing webhook_events
\* row, the row of its own create notification; and a request changes jobs,
\* activities or songs only if it has appended its webhook_events row (so
\* not when that INSERT fails), which is marked processed only by a request
\* that got through all its queries.
C15_AuditBeforeAction ==
  /\ [](\A id \in JobIds :
          LET e == processing_jobs[id].webhook_event_id
          IN /\ e \in DOMAIN webhook_events
             /\ webhook_events[e].aspect_type = "create"
             /\ webhook_events[e].object_id = processing_jobs[id].activity_id)
  /\ [][/\ ~EventWritten =>
             UNCHANGED <<webhook_events, processing_jobs, activities, activity_songs>>
        /\ EventWritten =>
             /\ OlderEventsKept
             /\ [LastEvent EXCEPT !.processed = FALSE] = NewEvent(response'.body)
             /\ LastEvent.processed => response'.success]_vars

\* the job of a create notification is enqueued while the row of the
\* notification, written first, is still unprocessed (the UPDATE rejected)
C15_Witness ==
  /\ ~response.success
  /\ IsCreate(response.body)
  /\ Len(processing_jobs) = 1
  /\ processing_jobs[1].webhook_event_id = Len(webhook_events)
  /\ ~webhook_events[Len(webhook_events)].processed

\* ------------------------------------------------------- token management
Callable == {"idle", "returned", "failed"}

NonTokenVars == <<now, processing_jobs, webhook_events, storeVars, pc, sel,
                  processed, dbActivityId, songIdx, manual, response, mapped,
                  cleanup,
                  handshakeVars>>

\* storeAuthTokens: the OAuth callback stores the tokens of a login
StoreAuthTokens(userId, provider, accessToken, refreshToken, expiresIn) ==
  /\ auth_tokens' = UpsertTokens(auth_tokens, userId, provider, accessToken,
                                 refreshToken, ExpiryAfter(now, expiresIn))
  /\ UNCHANGED <<NonTokenVars, tm>>

\* getValidToken is called: the SELECT, the expiry test and either a return,
\* a throw or the start of the refresh request
TmCall(c, userId, provider) ==
  /\ tm[c].pc \in Callable
  /\ LET rows == TokenRows(auth_tokens, userId, provider)
         call == [TmIdle EXCEPT !.userId = userId, !.provider = provider,
                                !.now = now]
     IN IF rows = {}
        THEN tm' = [tm EXCEPT ![c] =
                      [call EXCEPT !.pc = "failed",
                                   !.error = "No token found"]]
        ELSE LET tokenData == CHOOSE r \in rows : TRUE
             IN IF StillValid(tokenData, now)
                THEN tm' = [tm EXCEPT ![c] =
                              [call EXCEPT !.pc = "returned",
                                           !.accessToken = tokenData.access_token,
                                           !.expiresAt = tokenData.expires_at]]
                ELSE IF ~CanRefresh(tokenData)
                THEN tm' = [tm EXCEPT ![c] =
                              [call EXCEPT !.pc = "failed",
                                           !.error = "No refresh token available"]]
                ELSE tm' = [tm EXCEPT ![c] = [call EXCEPT !.pc = "refresh"]]
  /\ UNCHANGED <<NonTokenVars, auth_tokens>>

\* the provider answers the refresh request; newExpiresAt is computed from
\* the now read before the request
TmRefresh(c, newTokenData) ==
  /\ tm[c].pc = "refresh"
  /\ tm' = [tm EXCEPT ![c].pc = "update",
                      ![c].newTokenData = newTokenData,
                      ![c].expiresAt = ExpiryAfter(tm[c].now, newTokenData.expires_in)]
  /\ UNCHANGED <<NonTokenVars, auth_tokens>>

\* the provider rejects the refresh request: rethrown by the catch block
TmRefreshFail(c) ==
  /\ tm[c].pc = "refresh"
  /\ tm' = [tm EXCEPT ![c].pc = "failed", ![c].error = "refresh rejected"]
  /\ UNCHANGED <<NonTokenVars, auth_tokens>>

\* the UPDATE of auth_tokens, then the return of the new access token
TmUpdate(c) ==
  /\ tm[c].pc = "update"
  /\ auth_tokens' = UpdateTokens(auth_tokens, tm[c].userId, tm[c].provider,
                                 tm[c].newTokenData, tm[c].expiresAt)
  /\ tm' = [tm EXCEPT ![c].pc = "returned",
                      ![c].accessToken = tm[c].newTokenData.access_token,
                      ![c].newTokenData = NoTokenData]
  /\ UNCHANGED NonTokenVars

\* the UPDATE rejects: rethrown by the catch block
TmUpdateFail(c) ==
  /\ tm[c].pc = "update"
  /\ tm' = [tm EXCEPT ![c].pc = "failed", ![c].error = "database error",
                      ![c].newTokenData = NoTokenData,
                      ![c].expiresAt = NullInt]
  /\ UNCHANGED <<NonTokenVars, auth_tokens>>

\* token lifetimes in seconds: shorter and longer than the buffer
Lifetimes == {60, 360}

MaxTokenTime == 3

\* token responses of the provider, with and without a new refresh token
TokenResponses ==
  [access_token : {"A1", "A2"}, refresh_token : {NullText, "R1"},
   expires_in : Lifetimes]

NextToken ==
  \/ \E refreshToken \in {NullText, "R0"} : \E expiresIn \in Lifetimes :
       StoreAuthTokens(1, "spotify", "A0", refreshToken, expiresIn)
  \/ \E c \in Claimants : TmCall(c, 1, "spotify")
  \/ \E c \in Claimants : \E newTokenData \in TokenResponses :
       TmRefresh(c, newTokenData)
  \/ \E c \in Claimants : TmRefreshFail(c)
  \/ \E c \in Claimants : TmUpdate(c)
  \/ \E c \in Claimants : TmUpdateFail(c)
  \/ now < MaxTokenTime /\ Tick

SpecToken == Init /\ [][NextToken]_vars

\* the rows of the credential a caller asks for / has asked for
RowsBefore(c) == TokenRows(auth_tokens, tm'[c].userId, tm'[c].provider)

RowsAfter(c) == TokenRows(auth_tokens', tm'[c].userId, tm'[c].provider)

Returns(c) == tm'[c] # tm[c] /\ tm'[c].pc = "returned"

Fails(c) == tm'[c] # tm[c] /\ tm'[c].pc = "failed"

Calls(c) == tm'[c] # tm[c] /\ tm[c].pc \in Callable

\* C16: whenever getValidToken returns a token, cached or just refreshed,
\* the expiry stored for the credential is at least 5 minutes after the
\* time the call read.
C16_ReturnedTokenFresh ==
  [][\A c \in Claimants :
       Returns(c) =>
         /\ tm'[c].expiresAt >= tm'[c].now + 5
         /\ \A r \in RowsAfter(c) : r.expires_at >= tm'[c].now + 5]_vars

\* C17: a call made while the stored expiry is later than now + 5 minutes
\* returns the stored access token at once, without a refresh request, and
\* leaves the table unchanged.
C17_CachedUntouched ==
  [][\A c \in Claimants :
       (/\ Calls(c)
        /\ RowsBefore(c) # {}
        /\ \A r \in RowsBefore(c) : r.expires_at > now + 5)
         => /\ tm'[c].pc = "returned"
            /\ \A r \in RowsBefore(c) : tm'[c].accessToken = r.access_token
            /\ tm'[c].newTokenData = NoTokenData
            /\ auth_tokens' = auth_tokens]_vars

\* a call has returned the stored token A0 of a row that is valid for more
\* than 5 minutes, and the row is as it was stored
C17_Witness ==
  \E c \in Claimants :
    /\ tm[c].pc = "returned"
    /\ tm[c].accessToken = "A0"
    /\ tm[c].expiresAt > tm[c].now + 5
    /\ auth_tokens = {[user_id |-> 1, provider |-> "spotify",
                       access_token |-> "A0", refresh_token |-> "R0",
                       expires_at |-> tm[c].expiresAt]}

\* C18: a call fails with the missing-token error when the credential has
\* no row, and with a refresh error when a refresh is needed and the row has
\* no refresh token or the provider rejects the request; a call that fails,
\* for whatever reason, hands out no token and changes no row.
C18_FailuresLeaveStore ==
  [][\A c \in Claimants :
       /\ (Calls(c) /\ RowsBefore(c) = {})
            => tm'[c].pc = "failed" /\ tm'[c].error = "No token found"
       /\ (/\ Calls(c)
           /\ \E r \in RowsBefore(c) :
                r.expires_at <= now + 5 /\ r.refresh_token = NullText)
            => /\ tm'[c].pc = "failed"
               /\ tm'[c].error = "No refresh token available"
       /\ (tm[c].pc = "refresh" /\ tm'[c].pc # "update" /\ tm'[c] # tm[c])
            => tm'[c].pc = "failed" /\ tm'[c].error = "refresh rejected"
       /\ Fails(c)
            => /\ tm'[c].accessToken = NullText
               /\ tm'[c].error # NullText
               /\ auth_tokens' = auth_tokens]_vars

\* the provider has rejected a caller's refresh request: the caller holds an
\* error and no token, the expired row is still the stored one
C18_Witness ==
  \E c \in Claimants :
    /\ tm[c].pc = "failed"
    /\ tm[c].error = "refresh rejected"
    /\ tm[c].accessToken = NullText
    /\ \E r \in auth_tokens :
         r.access_token = "A0" /\ r.expires_at <= tm[c].now + 5

\* a row whose last write was the UPDATE of a refresh (logins store A0)
WrittenByRefresh(r) ==
  r.access_token \in {t.access_token : t \in TokenResponses}

\* C19: the UPDATE of a refresh never lowers the expiry that the UPDATE of
\* an earlier refresh has stored for the credential.
C19_ExpiryMonotone ==
  [][\A c \in Claimants :
       (tm[c].pc = "update" /\ Returns(c)) =>
         \A r \in RowsBefore(c) :
           WrittenByRefresh(r) =>
             \A q \in RowsAfter(c) : q.expires_at >= r.expires_at]_vars

\* C20: the UPDATE of a successful refresh leaves the credential's row with
\* the response's access token, the expiry computed from the response, and
\* the response's refresh token if it has one, else the refresh token the
\* row had; the caller gets the new access token.
C20_RefreshPersisted ==
  [][\A c \in Claimants :
       (tm[c].pc = "update" /\ Returns(c)) =>
         /\ tm'[c].accessToken = tm[c].newTokenData.access_token
         /\ Cardinality(RowsAfter(c)) = Cardinality(RowsBefore(c))
         /\ \A r \in RowsBefore(c) :
              \E q \in RowsAfter(c) :
                /\ q.access_token = tm[c].newTokenData.access_token
                /\ q.expires_at * 60 = tm[c].now * 60 + tm[c].newTokenData.expires_in
                /\ q.refresh_token =
                     IF tm[c].newTokenData.refresh_token # NullText
                     THEN tm[c].newTokenData.refresh_token
                     ELSE r.refresh_token
         /\ auth_tokens' \ RowsAfter(c) = auth_tokens \ RowsBefore(c)]_vars

\* a refresh whose response carried no refresh token has been written: the
\* row has the new access token and still the refresh token of the login
C20_Witness ==
  \E c \in Claimants :
    /\ tm[c].pc = "returned"
    /\ tm[c].accessToken = "A1"
    /\ auth_tokens = {[user_id |-> 1, provider |-> "spotify",
                       access_token |-> "A1", refresh_token |-> "R0",
                       expires_at |-> tm[c].expiresAt]}

\* ------------------------------------------------------------ RouteMapper
MaxSongs == 2

\* the activity start of the mapper's inputs, seconds
MapStart == 3600

\* event times: 31 minutes and 1 second before the start, the start, inside,
\* the end of a 60-second activity, 1 second after it
MapTimes ==
  {MapStart - 1860, MapStart - 1, MapStart, MapStart + 30, MapStart + 60,
   MapStart + 61}

MapSongLists ==
  UNION {[1..n -> [track : {"t1", "t2"}, played_at : MapTimes]] :
           n \in 0..MaxSongs}

MapDurations == {0, 60}

MapPaths == {<< >>, <<0>>, <<5, 5, 5>>, <<0, 10, 20, 30, 40>>}

\* pace data: none; two even splits over 60 s; uneven splits over 60 s;
\* splits that stop before / run past 60 s; a split of no time; no distance
MapSplits ==
  {<< >>,
   <<[distance |-> 20, elapsed_time |-> 30], [distance |-> 20, elapsed_time |-> 30]>>,
   <<[distance |-> 10, elapsed_time |-> 20], [distance |-> 30, elapsed_time |-> 40]>>,
   <<[distance |-> 20, elapsed_time |-> 20]>>,
   <<[distance |-> 20, elapsed_time |-> 60], [distance |-> 20, elapsed_time |-> 60]>>,
   <<[distance |-> 20, elapsed_time |-> 0], [distance |-> 20, elapsed_time |-> 60]>>,
   <<[distance |-> 0, elapsed_time |-> 60]>>}

\* the arguments of one call, not yet made
InitMap ==
  /\ now = 0
  /\ processing_jobs = << >>
  /\ webhook_events = << >>
  /\ activities = {}
  /\ activity_songs = {}
  /\ activities_seq = 0
  /\ songs_seq = 0
  /\ pc = Idle
  /\ sel = [c \in Claimants |-> << >>]
  /\ processed = [c \in Claimants |-> 0]
  /\ dbActivityId = [c \in Claimants |-> 0]
  /\ songIdx = [c \in Claimants |-> 0]
  /\ manual = [pc |-> "idle", activityId |-> 0, dbId |-> 0, idx |-> 0,
               runs |-> 0, before |-> {}]
  /\ response = [status |-> 0, success |-> FALSE, body |-> NoBody]
  /\ auth_tokens = {}
  /\ tm = [c \in Claimants |-> TmIdle]
  /\ mapped \in [songs : MapSongLists, runStartTime : {MapStart},
                 runDuration : MapDurations, coordinates : MapPaths,
                 splits : MapSplits, called : {FALSE}, mappedSongs : {<< >>}]
  /\ webhook_subscriptions = {}
  /\ verification = NoVerification
  /\ cleanup = NotCleaned

\* the call of mapSongsToRoute
MapSongs ==
  /\ ~mapped.called
  /\ mapped' = [mapped EXCEPT
                  !.called = TRUE,
                  !.mappedSongs =
                     mapSongsToRoute(mapped.songs, mapped.runStartTime,
                                     mapped.runDuration, mapped.coordinates,
                                     mapped.splits)]
  /\ UNCHANGED <<now, processing_jobs, webhook_events, storeVars, pc, sel,
                 processed, dbActivityId, songIdx, manual, response, tokenVars, cleanup,
                 handshakeVars>>

NextMap == MapSongs

SpecMap == InitMap /\ [][NextMap]_vars

WindowEnd == mapped.runStartTime + mapped.runDuration

InsideWindow(song) ==
  mapped.runStartTime <= song.played_at /\ song.played_at <= WindowEnd

IsFraction(p, num, den) == p.den > 0 /\ p.num * den = num * p.den

\* the mapped list is the input list without the events outside the closed
\* window, in the input's order
KeepsWindow ==
  /\ Len(mapped.mappedSongs)
       = Cardinality({i \in DOMAIN mapped.songs : InsideWindow(mapped.songs[i])})
  /\ \A k \in DOMAIN mapped.mappedSongs : InsideWindow(mapped.mappedSongs[k])
  /\ \A i \in DOMAIN mapped.songs :
       InsideWindow(mapped.songs[i]) =>
         \E k \in DOMAIN mapped.mappedSongs :
           /\ mapped.mappedSongs[k].track = mapped.songs[i].track
           /\ mapped.mappedSongs[k].played_at = mapped.songs[i].played_at

\* C21 as claimed: with duration > 0 the mapped list holds exactly the
\* events of the closed window; an event at the start has completion 0 and
\* an event at the end has completion 1, with or without pace data.
C21_WindowInclusive ==
  (mapped.called /\ mapped.runDuration > 0) =>
    /\ KeepsWindow
    /\ \A k \in DOMAIN mapped.mappedSongs :
         LET m == mapped.mappedSongs[k]
         IN /\ m.played_at = mapped.runStartTime
                 => IsFraction(m.percentage_complete, 0, 1)
            /\ m.played_at = WindowEnd
                 => IsFraction(m.percentage_complete, 1, 1)

\* C21 amended: with duration > 0 the mapped list holds exactly the events
\* of the closed window, with or without pace data; without pace data an
\* event at the start has completion 0 and an event at the end has
\* completion 1.
C21_WindowInclusiveUniform ==
  (mapped.called /\ mapped.runDuration > 0) =>
    /\ KeepsWindow
    /\ mapped.splits = << >> =>
         \A k \in DOMAIN mapped.mappedSongs :
           LET m == mapped.mappedSongs[k]
           IN /\ m.played_at = mapped.runStartTime
                   => IsFraction(m.percentage_complete, 0, 1)
              /\ m.played_at = WindowEnd
                   => IsFraction(m.percentage_complete, 1, 1)

\* events at the end of the window and 1 second after it, no pace data:
\* only the first is mapped, with completion 1
C21_Witness ==
  /\ mapped.called
  /\ mapped.runDuration = 60
  /\ mapped.splits = << >>
  /\ Len(mapped.songs) = 2
  /\ mapped.songs[1].played_at = MapStart + 60
  /\ mapped.songs[2].played_at = MapStart + 61
  /\ Len(mapped.mappedSongs) = 1
  /\ mapped.mappedSongs[1].played_at = MapStart + 60
  /\ IsFraction(mapped.mappedSongs[1].percentage_complete, 1, 1)

\* C22: every mapped event has a completion that is a number of [0, 1].
C22_CompletionInUnitInterval ==
  mapped.called =>
    \A k \in DOMAIN mapped.mappedSongs :
      LET p == mapped.mappedSongs[k].percentage_complete
      IN p.den > 0 /\ 0 <= p.num /\ p.num <= p.den

\* pace data whose splits all take time
PositiveTimes(splits) == \A i \in DOMAIN splits : splits[i].elapsed_time > 0

RECURSIVE TimeThrough(_, _)
TimeThrough(splits, i) ==
  IF i = 0 THEN 0 ELSE TimeThrough(splits, i - 1) + splits[i].elapsed_time

RECURSIVE DistanceThrough(_, _)
DistanceThrough(splits, i) ==
  IF i = 0 THEN 0 ELSE DistanceThrough(splits, i - 1) + splits[i].distance

\* the splits whose cumulative elapsed time reaches offset t
Reaching(splits, t) == {i \in DOMAIN splits : TimeThrough(splits, i) >= t}

\* C32: pace-aware interpolation. With pace data of positive elapsed times,
\* a mapped event at offset t has completion (distance of the splits before
\* the first split whose cumulative time is >= t, plus that split's distance
\* x (t - cumulative time before it) / its elapsed time) / total distance,
\* undefined like that quotient when the total distance is 0, and completion
\* 1 when t is beyond the cumulative time of all splits.
C32_PaceInterpolation ==
  (mapped.called /\ Len(mapped.splits) > 0 /\ PositiveTimes(mapped.splits)) =>
    \A k \in DOMAIN mapped.mappedSongs :
      LET m == mapped.mappedSongs[k]
          p == m.percentage_complete
          t == m.played_at - mapped.runStartTime
          total == DistanceThrough(mapped.splits, Len(mapped.splits))
          reach == Reaching(mapped.splits, t)
      IN IF reach = {} THEN IsFraction(p, 1, 1)
         ELSE LET i == CHOOSE x \in reach : \A y \in reach : x <= y
                  e == mapped.splits[i].elapsed_time
                  d == mapped.splits[i].distance
              IN IF total = 0 THEN p.den = 0
                 ELSE IsFraction(p,
                        DistanceThrough(mapped.splits, i - 1) * e
                          + d * (t - TimeThrough(mapped.splits, i - 1)),
                        e * total)

\* splits of 10 m in 20 s and 30 m in 40 s: the event 30 s after the start
\* has completion (10 + 30 x 10 / 40) / 40 = 7/16
C32_Witness ==
  /\ mapped.called
  /\ mapped.runDuration = 60
  /\ mapped.splits = <<[distance |-> 10, elapsed_time |-> 20],
                       [distance |-> 30, elapsed_time |-> 40]>>
  /\ Len(mapped.mappedSongs) = 1
  /\ mapped.mappedSongs[1].played_at = MapStart + 30
  /\ IsFraction(mapped.mappedSongs[1].percentage_complete, 7, 16)

\* 0-based indices of the path points whose cumulative distance is at least
\* the fraction p of the total path distance
PointsReaching(coordinates, p) ==
  {i \in 0..(Len(coordinates) - 1) :
     CumulativeDistance(coordinates, i + 1) * p.den
       >= CumulativeDistance(coordinates, Len(coordinates)) * p.num}

\* C33: path position. For a completion in [0, 1] and a non-empty path the
\* matched index is the smallest index, from the first point on, whose
\* cumulative distance is >= completion x total distance, or the last index
\* if there is none.
C33_PathPosition ==
  (mapped.called /\ Len(mapped.coordinates) > 0) =>
    \A k \in DOMAIN mapped.mappedSongs :
      LET m == mapped.mappedSongs[k]
          p == m.percentage_complete
          reach == PointsReaching(mapped.coordinates, p)
      IN (p.den > 0 /\ 0 <= p.num /\ p.num <= p.den) =>
           m.coordinate_index =
             IF reach = {} THEN Len(mapped.coordinates) - 1
             ELSE CHOOSE x \in reach : \A y \in reach : x <= y

\* p <= q for completions that are numbers
FractionLeq(p, q) ==
  p.den > 0 /\ q.den > 0 /\ p.num * q.den <= q.num * p.den

\* C38: mapping is monotone in time. With duration > 0 and pace data of
\* positive times (and non-negative distances), of two mapped events the
\* one not later has a completion and a path index not greater.
C38_MonotoneInTime ==
  (mapped.called /\ mapped.runDuration > 0 /\ PositiveTimes(mapped.splits)) =>
    \A a, b \in DOMAIN mapped.mappedSongs :
      mapped.mappedSongs[a].played_at <= mapped.mappedSongs[b].played_at =>
        /\ FractionLeq(mapped.mappedSongs[a].percentage_complete,
                       mapped.mappedSongs[b].percentage_complete)
        /\ mapped.mappedSongs[a].coordinate_index
             <= mapped.mappedSongs[b].coordinate_index

\* the input events in the closed window, in input order
InWindowEvents == SelectSeq(mapped.songs, InsideWindow)

\* C39: the mapped list is exactly the sequence of the input events of the
\* closed window: each once, in input order, track id and timestamp
\* unchanged.
C39_ExactlyWindowEvents ==
  mapped.called =>
    /\ Len(mapped.mappedSongs) = Len(InWindowEvents)
    /\ \A k \in DOMAIN mapped.mappedSongs :
         /\ mapped.mappedSongs[k].track = InWindowEvents[k].track
         /\ mapped.mappedSongs[k].played_at = InWindowEvents[k].played_at

\* two events of the window given latest first are mapped in that order
C39_Witness ==
  /\ mapped.called
  /\ mapped.runDuration = 60
  /\ Len(mapped.songs) = 2
  /\ mapped.songs[1] = [track |-> "t2", played_at |-> MapStart + 60]
  /\ mapped.songs[2] = [track |-> "t1", played_at |-> MapStart]
  /\ Len(mapped.mappedSongs) = 2
  /\ mapped.mappedSongs[1].track = "t2"
  /\ mapped.mappedSongs[2].track = "t1"

\* ------------------------------------------- job execution, edge activities
MaxEdgeJobs == 1

\* creations, by the known owner, of the activities without path data (3),
\* with a polyline that does not decode (4), of duration 0 (5), not a run (6)
EdgeBodies ==
  [object_type : {"activity"}, object_id : {3, 4, 5, 6},
   aspect_type : {"create"}, owner_id : {7}, event_time : {5}]

NextEdge ==
  \/ \E body \in EdgeBodies :
       Len(processing_jobs) < MaxEdgeJobs /\ POST(body, NoFault)
  \/ \E c \in {"c1"} : \E limit \in {DefaultLimit} : Invoke(c, limit)
  \/ \E c \in {"c1"} : Lock(c)
  \/ \E c \in {"c1"} : Fetch(c)
  \/ \E c \in {"c1"} : FetchFail(c)
  \/ \E c \in {"c1"} : DbFail(c)
  \/ \E c \in {"c1"} : StoreActivity(c)
  \/ \E c \in {"c1"} : StoreSong(c)
  \/ \E c \in {"c1"} : StoreResult(c)
  \/ \E c \in {"c1"} : Complete(c)
  \/ Tick

SpecEdge == Init /\ [][NextEdge]_vars

\* the activity of job id, as the upstream returns it
ActivityOfJob(id) == StravaActivity(processing_jobs[id].activity_id)

HasPath(activity) ==
  activity.type \in {"Run", "VirtualRun"} /\ activity.polyline # NullText

\* polylines the decoder rejects
Undecodable == {"bad"}

EmptyPath(activity) ==
  HasPath(activity) /\ activity.polyline \in Undecodable

StoredFor(aid) == ActivityRows(activities, aid)

\* C24: empty path is fatal. The execution of a job whose activity's
\* polyline decodes to no coordinate ends in retry while attempts are below
\* max_retries and in failed otherwise, with the error recorded, and writes
\* no row; such a job is never completed and its activity is never stored.
C24_EmptyPathFatal ==
  /\ [](\A id \in JobIds :
          EmptyPath(ActivityOfJob(id)) =>
            /\ processing_jobs[id].status # "completed"
            /\ StoredFor(processing_jobs[id].activity_id) = {})
  /\ [][\A c \in Claimants :
          (/\ pc[c] = "work"
           /\ EmptyPath(ActivityOfJob(CurrentJob(c)))
           /\ pc'[c] # "work")
            => LET old == processing_jobs[CurrentJob(c)]
                   new == processing_jobs'[CurrentJob(c)]
               IN /\ new.status =
                       IF old.attempts < old.max_retries THEN "retry" ELSE "failed"
                  /\ new.error_message \in
                       {"Failed to decode polyline", "upstream error"}
                  /\ UNCHANGED storeVars]_vars

\* the job of activity 4 has used its three attempts and is failed with the
\* decode error; nothing is stored
C24_Witness ==
  \E id \in JobIds :
    /\ processing_jobs[id].activity_id = 4
    /\ processing_jobs[id].status = "failed"
    /\ processing_jobs[id].attempts = 3
    /\ processing_jobs[id].error_message = "Failed to decode polyline"
    /\ activities = {}
    /\ activity_songs = {}

\* C25: zero duration is fatal. A job whose activity has duration 0 is never
\* completed, and no stored song has an undefined completion.
C25_ZeroDurationFatal ==
  /\ \A id \in JobIds :
       ActivityOfJob(id).elapsed_time = 0 => processing_jobs[id].status # "completed"
  /\ \A r \in activity_songs : r.percentage_complete.den > 0

\* C26: non-fatal skip. The execution of a job whose fetched activity has no
\* path data or is not a run goes from the fetch straight to the write of
\* completed without touching the job or the stored rows, and ends
\* completed unless that write itself rejects; it never maps or stores, and
\* the activity is never stored.
C26_SkipCompletes ==
  /\ [](\A id \in JobIds :
          ~HasPath(ActivityOfJob(id)) =>
            /\ StoredFor(processing_jobs[id].activity_id) = {}
            /\ processing_jobs[id].result_data = NullInt
            /\ \A c \in Claimants :
                 (pc[c] \in Holding /\ CurrentJob(c) = id)
                   => pc[c] \in {"work", "complete"})
  /\ [][\A c \in Claimants :
          (pc[c] \in Holding /\ ~HasPath(ActivityOfJob(CurrentJob(c)))
             /\ pc'[c] # pc[c])
            => LET old == processing_jobs[CurrentJob(c)]
                   new == processing_jobs'[CurrentJob(c)]
               IN /\ UNCHANGED storeVars
                  /\ pc[c] = "work" =>
                       \/ pc'[c] = "complete" /\ new = old
                       \/ new.error_message = "upstream error"
                  /\ pc[c] = "complete" =>
                       \/ new.status = "completed" /\ new.attempts = old.attempts
                       \/ new.error_message = "database error"]_vars

\* the job of the ride (activity 6) is completed on its first attempt with
\* no result and nothing stored
C26_Witness ==
  \E id \in JobIds :
    /\ processing_jobs[id].activity_id = 6
    /\ processing_jobs[id].status = "completed"
    /\ processing_jobs[id].attempts = 1
    /\ processing_jobs[id].result_data = NullInt
    /\ processing_jobs[id].error_message = NullText
    /\ activities = {}
    /\ activity_songs = {}

\* C27: partial progress is discarded. When the only job is in retry or
\* failed and no claimant holds it, none of the rows its executions wrote
\* remain.
C27_PartialDiscarded ==
  (/\ Len(processing_jobs) = 1
   /\ processing_jobs[1].status \in {"retry", "failed"}
   /\ \A c \in Claimants : pc[c] \notin Holding)
    => activities = {} /\ activity_songs = {}

\* ------------------------------------------------------- abandoned attempts
\* the process running processPendingJobs dies between the lock UPDATE and
\* the completed / retry / failed UPDATE: no further query of it is issued
Crash(c) ==
  /\ pc[c] \in Holding
  /\ pc' = [pc EXCEPT ![c] = "idle"]
  /\ sel' = [sel EXCEPT ![c] = << >>]
  /\ dbActivityId' = [dbActivityId EXCEPT ![c] = 0]
  /\ songIdx' = [songIdx EXCEPT ![c] = 0]
  /\ UNCHANGED <<now, tokenVars, cleanup, mapped, handshakeVars, processing_jobs,
                 webhook_events, storeVars, processed, manual, response>>

NextAbandon ==
  \/ \E body \in QueueBodies : Bounded /\ POST(body, NoFault)
  \/ \E c \in Claimants : \E limit \in {DefaultLimit} : Invoke(c, limit)
  \/ \E c \in Claimants : Lock(c)
  \/ \E c \in Claimants : Fetch(c)
  \/ \E c \in Claimants : FetchFail(c)
  \/ \E c \in Claimants : DbFail(c)
  \/ \E c \in Claimants : Complete(c)
  \/ \E c \in Claimants : Crash(c)
  \/ Tick

SpecAbandon == Init /\ [][NextAbandon]_vars

HeldBy(id) == {c \in Claimants : pc[c] \in Holding /\ CurrentJob(c) = id}

\* C28: abandoned jobs are recovered. A job left in processing that no
\* claimant holds any more, with attempts below max_retries, is selectable
\* and lockable again once its scheduled time has passed.
C28_AbandonedReclaimable ==
  \A id \in JobIds :
    (/\ processing_jobs[id].status = "processing"
     /\ HeldBy(id) = {}
     /\ processing_jobs[id].attempts < processing_jobs[id].max_retries
     /\ processing_jobs[id].scheduled_for <= now)
      => /\ id \in Eligible(processing_jobs, now)
         /\ LockMatches(processing_jobs[id])

\* ---------------------------------------------------- subscription handshake
MaxHandshakes == 2

Tokens == {"tokA", "tokB", "tokC"}
SubscriptionIds == {1, 2}

Modes == {"subscribe", "unsubscribe", NullText}
Challenges == {"ch1", NullText}

\* rows of SELECT ... WHERE subscription_status = 'active'
ActiveRows(rows) == {r \in rows : r.subscription_status = "active"}

\* variant that accepts any token
TokenMatches_Any(token, row) == TRUE

\* token !== result.rows[0].verify_token, negated
TokenMatches(token, row) == token = row.verify_token

Verified(mode, token, challenge, expected, status) ==
  [n |-> verification.n + 1, mode |-> mode, token |-> token,
   asked |-> challenge, expected |-> expected, status |-> status,
   challenge |-> IF status = 200 THEN challenge ELSE NullText]

\* GET /api/webhooks/strava; rejects: the SELECT rejects.  LIMIT 1 without
\* ORDER BY returns any one of the active rows.
GET(mode, token, challenge, rejects) ==
  /\ verification.n < MaxHandshakes
  /\ IF mode # "subscribe"
     THEN verification' = Verified(mode, token, challenge, NullText, 400)
     ELSE IF challenge = NullText
     THEN verification' = Verified(mode, token, challenge, NullText, 400)
     ELSE IF rejects
     THEN verification' = Verified(mode, token, challenge, NullText, 500)
     ELSE IF ActiveRows(webhook_subscriptions) = {}
     THEN verification' = Verified(mode, token, challenge, NullText, 200)
     ELSE \E row \in ActiveRows(webhook_subscriptions) :
            verification' =
              Verified(mode, token, challenge, row.verify_token,
                       IF TokenMatches(token, row) THEN 200 ELSE 403)
  /\ UNCHANGED <<now, processing_jobs, webhook_events, storeVars, pc, sel,
                 processed, dbActivityId, songIdx, manual, response,
                 tokenVars, cleanup, mapped, webhook_subscriptions>>

\* INSERT ... ON CONFLICT (subscription_id) DO UPDATE
UpsertSubscription(rows, id, token) ==
  {r \in rows : r.subscription_id # id}
    \cup {[subscription_id |-> id, verify_token |-> token,
           subscription_status |-> "active"]}

\* UPDATE ... SET subscription_status = 'inactive' WHERE subscription_id
Deactivate(rows, id) ==
  {IF r.subscription_id = id
   THEN [r EXCEPT !.subscription_status = "inactive"] ELSE r : r \in rows}

\* POST /api/webhooks/subscribe once the upstream lists no subscription and
\* has created subscription id: the row is stored with the freshly drawn
\* verify token
Subscribe(id, verifyToken) ==
  /\ verifyToken \notin {r.verify_token : r \in webhook_subscriptions}
  /\ webhook_subscriptions' =
       UpsertSubscription(webhook_subscriptions, id, verifyToken)
  /\ UNCHANGED <<now, processing_jobs, webhook_events, storeVars, pc, sel,
                 processed, dbActivityId, songIdx, manual, response,
                 tokenVars, cleanup, mapped, verification>>

\* DELETE /api/webhooks/subscribe once the upstream has deleted subscription id
Unsubscribe(id) ==
  /\ webhook_subscriptions' = Deactivate(webhook_subscriptions, id)
  /\ UNCHANGED <<now, processing_jobs, webhook_events, storeVars, pc, sel,
                 processed, dbActivityId, songIdx, manual, response,
                 tokenVars, cleanup, mapped, verification>>

NextHandshake ==
  \/ \E mode \in Modes : \E token \in Tokens \cup {NullText} :
       \E challenge \in Challenges : \E rejects \in BOOLEAN :
         GET(mode, token, challenge, rejects)
  \/ \E id \in SubscriptionIds : \E verifyToken \in Tokens :
       Subscribe(id, verifyToken)
  \/ \E id \in SubscriptionIds : Unsubscribe(id)

SpecHandshake == Init /\ [][NextHandshake]_vars

ActiveTokens == {r.verify_token : r \in ActiveRows(webhook_subscriptions)}

\* C29: subscription handshake. A request with hub.mode = subscribe and a
\* challenge whose query succeeds is answered with that challenge echoed
\* when there is no active record or the token equals the token of the
\* active record(s), and is rejected without the challenge when there is an
\* active record and the token equals no active record's token; a request
\* with another mode or without a challenge is rejected.
C29_Handshake ==
  [][verification'.n # verification.n =>
       LET v == verification'
       IN /\ (v.mode = "subscribe" /\ v.asked # NullText /\ v.status # 500) =>
               /\ v.status \in {200, 403}
               /\ (ActiveTokens = {} \/ ActiveTokens = {v.token})
                    => (v.status = 200 /\ v.challenge = v.asked)
               /\ (ActiveTokens # {} /\ v.token \notin ActiveTokens)
                    => (v.status = 403 /\ v.challenge = NullText)
               /\ v.status = 200 => v.challenge = v.asked
               /\ v.status = 403 => v.challenge = NullText
          /\ (v.mode # "subscribe" \/ v.asked = NullText) =>
               (v.status = 400 /\ v.challenge = NullText)]_vars

\* a request carrying the token of the active record read has been answered
\* with its challenge while another, inactive, record holds another token
C29_Witness ==
  /\ verification.status = 200
  /\ verification.challenge = "ch1"
  /\ verification.expected = verification.token
  /\ verification.token \in Tokens
  /\ \E r \in webhook_subscriptions :
       r.subscription_status = "inactive" /\ r.verify_token # verification.token

\* ----------------------------------------------------- event processed flag
\* C30: the processed flag of a webhook_events row only ever goes from
\* false to true. No request removes a row, turns a processed flag back to
\* false, or changes the flag of a row written by an earlier request.
C30_ProcessedMonotone ==
  [][/\ Len(webhook_events') >= Len(webhook_events)
     /\ \A i \in DOMAIN webhook_events :
          webhook_events'[i].processed = webhook_events[i].processed]_vars

\* an earlier notification's row is still unprocessed after a later
\* notification's row has been marked processed
C30_Witness ==
  /\ Len(webhook_events) = 2
  /\ ~webhook_events[1].processed
  /\ webhook_events[2].processed

\* ------------------------------------------------------------ cleanupOldJobs
MaxCleanJobs == 2

MinutesPerDay == 1440

\* CURRENT_TIMESTAMP of the call: three days after time 0
CleanNow == 3 * MinutesPerDay

\* times at either side of the one-day and two-day thresholds
CleanTimes ==
  {MinutesPerDay - 1, MinutesPerDay, 2 * MinutesPerDay - 1,
   2 * MinutesPerDay, CleanNow}

CleanDays == {1, 2}

\* the columns of a processing_jobs row that the DELETE reads, as processJob
\* leaves them: completed_at is set by the completed UPDATE only, updated_at
\* by the completed, retry and failed UPDATEs
CleanRows ==
  [status : {"pending", "retry", "processing", "failed"},
   completed_at : {NullInt}, updated_at : CleanTimes]
    \cup {[status |-> "completed", completed_at |-> t, updated_at |-> t] :
            t \in CleanTimes}

CleanTables ==
  UNION {{{[id |-> i, row |-> f[i]] : i \in 1..n} : f \in [1..n -> CleanRows]} :
           n \in 0..MaxCleanJobs}

\* ts < CURRENT_TIMESTAMP - INTERVAL 'daysOld days'; never true of NULL
OlderThan(ts, daysOld, t) ==
  ts # NullInt /\ ts < t - daysOld * MinutesPerDay

\* variant that also matches failed rows, by their last update
CleanupMatches_Terminal(row, daysOld, t) ==
  /\ row.status \in {"completed", "failed"}
  /\ OlderThan(row.updated_at, daysOld, t)

\* WHERE clause of the DELETE of cleanupOldJobs
CleanupMatches(row, daysOld, t) ==
  /\ row.status = "completed"
  /\ OlderThan(row.completed_at, daysOld, t)

InitCleanup ==
  /\ now = CleanNow
  /\ processing_jobs = << >>
  /\ webhook_events = << >>
  /\ activities = {}
  /\ activity_songs = {}
  /\ activities_seq = 0
  /\ songs_seq = 0
  /\ pc = Idle
  /\ sel = [c \in Claimants |-> << >>]
  /\ processed = [c \in Claimants |-> 0]
  /\ dbActivityId = [c \in Claimants |-> 0]
  /\ songIdx = [c \in Claimants |-> 0]
  /\ manual = [pc |-> "idle", activityId |-> 0, dbId |-> 0, idx |-> 0,
               runs |-> 0, before |-> {}]
  /\ response = [status |-> 0, success |-> FALSE, body |-> NoBody]
  /\ auth_tokens = {}
  /\ tm = [c \in Claimants |-> TmIdle]
  /\ mapped = NotMapped
  /\ webhook_subscriptions = {}
  /\ verification = NoVerification
  /\ cleanup \in [before : CleanTables, jobs : {{}}, daysOld : {0},
                  called : {FALSE}, rowCount : {0}]

\* the call of cleanupOldJobs(daysOld)
cleanupOldJobs(daysOld) ==
  /\ ~cleanup.called
  /\ LET kept == {j \in cleanup.before : ~CleanupMatches(j.row, daysOld, now)}
     IN cleanup' = [cleanup EXCEPT
                      !.jobs = kept,
                      !.daysOld = daysOld,
                      !.called = TRUE,
                      !.rowCount = Cardinality(cleanup.before) - Cardinality(kept)]
  /\ UNCHANGED <<now, processing_jobs, webhook_events, storeVars, pc, sel,
                 processed, dbActivityId, songIdx, manual, response,
                 tokenVars, mapped, handshakeVars>>

NextCleanup == \E daysOld \in CleanDays : cleanupOldJobs(daysOld)

SpecCleanup == InitCleanup /\ [][NextCleanup]_vars

Deleted == cleanup.before \ cleanup.jobs

Threshold == now - cleanup.daysOld * MinutesPerDay

\* the call deletes rows of the table only, and reports how many
CleanupDeletesOnly ==
  /\ cleanup.jobs \subseteq cleanup.before
  /\ cleanup.rowCount = Cardinality(Deleted)

\* C31 as claimed: cleanup deletes every terminal job (completed or failed)
\* older than the threshold and no other job.
C31_CleanupTerminal ==
  cleanup.called =>
    /\ CleanupDeletesOnly
    /\ \A j \in cleanup.before :
         j \in Deleted <=>
           /\ j.row.status \in {"completed", "failed"}
           /\ j.row.updated_at < Threshold

\* C31, amended: cleanup deletes every completed job whose completion is
\* older than the threshold, and never deletes a job in pending, retry,
\* processing or failed nor a completed job that is not older.
C31_CleanupCompleted ==
  cleanup.called =>
    /\ CleanupDeletesOnly
    /\ \A j \in cleanup.before :
         /\ (j.row.status = "completed" /\ j.row.completed_at < Threshold)
              => j \in Deleted
         /\ j.row.status \in {"pending", "retry", "processing", "failed"}
              => j \notin Deleted
         /\ (j.row.status = "completed" /\ j.row.completed_at >= Threshold)
              => j \notin Deleted

\* a call has deleted an old completed job and kept a failed job as old
C31_Witness ==
  /\ cleanup.called
  /\ \E j \in Deleted : j.row.status = "completed"
  /\ \E j \in cleanup.jobs :
       j.row.status = "failed" /\ j.row.updated_at < Threshold

\* ------------------------------------------------- one invocation's batch
MaxBatchJobs == 2

BatchLimits == {1, 2}

\* creations, by the known owner, of the activity that is skipped (3)
BatchBodies ==
  [object_type : {"activity"}, object_id : {3}, aspect_type : {"create"},
   owner_id : {7}, event_time : {5}]

\* one claimant, several jobs
NextBatch ==
  \/ \E body \in BatchBodies :
       Len(processing_jobs) < MaxBatchJobs /\ POST(body, NoFault)
  \/ \E c \in {"c1"} : \E limit \in BatchLimits : Invoke(c, limit)
  \/ \E c \in {"c1"} : Lock(c)
  \/ \E c \in {"c1"} : Fetch(c)
  \/ \E c \in {"c1"} : FetchFail(c)
  \/ \E c \in {"c1"} : DbFail(c)
  \/ \E c \in {"c1"} : Complete(c)
  \/ Tick

SpecBatch == Init /\ [][NextBatch]_vars

Visible(id) ==
  /\ processing_jobs[id].status \in {"pending", "retry"}
  /\ processing_jobs[id].scheduled_for <= now

\* job a does not come after job b in the processing order
NotAfter(a, b) ==
  \/ processing_jobs[a].priority > processing_jobs[b].priority
  \/ /\ processing_jobs[a].priority = processing_jobs[b].priority
     /\ processing_jobs[a].scheduled_for <= processing_jobs[b].scheduled_for

InProcessing == {id \in JobIds : processing_jobs[id].status = "processing"}

C36_CountsOwnClaims ==
  [][\A c \in Claimants :
       /\ (pc[c] \in Holding /\ pc'[c] \notin Holding)
            => processed'[c] = processed[c] + 1
       /\ (pc[c] = "lock" /\ pc'[c] # "work" /\ sel'[c] # sel[c])
            => processed'[c] = processed[c]]_vars

\* ------------------------------------------------ deletion and queued jobs
\* creation and deletion of activity 1 by the known owner
DeleteBodies ==
  [object_type : {"activity"}, object_id : {1},
   aspect_type : {"create", "delete"}, owner_id : {7}, event_time : {5}]

\* a delete notification for the activity has been handled: the upstream no
\* longer serves it
UpstreamGone(aid) ==
  \E i \in DOMAIN webhook_events :
    /\ webhook_events[i].aspect_type = "delete"
    /\ webhook_events[i].object_id = aid

NextDelete ==
  \/ \E body \in DeleteBodies :
       Len(webhook_events) < MaxEvents /\ POST(body, NoFault)
  \/ \E c \in {"c1"} : \E limit \in {DefaultLimit} : Invoke(c, limit)
  \/ \E c \in {"c1"} : Lock(c)
  \/ \E c \in {"c1"} :
       /\ pc[c] = "work"
       /\ ~UpstreamGone(processing_jobs[CurrentJob(c)].activity_id)
       /\ Fetch(c)
  \/ \E c \in {"c1"} : FetchFail(c)
  \/ \E c \in {"c1"} : DbFail(c)
  \/ \E c \in {"c1"} : StoreActivity(c)
  \/ \E c \in {"c1"} : StoreSong(c)
  \/ \E c \in {"c1"} : StoreResult(c)
  \/ \E c \in {"c1"} : Complete(c)

SpecDelete == Init /\ [][NextDelete]_vars

\* the last notification handled for the activity is a delete
DeletedLast(aid) ==
  \E i \in DOMAIN webhook_events :
    /\ webhook_events[i].aspect_type = "delete"
    /\ webhook_events[i].object_id = aid
    /\ \A k \in DOMAIN webhook_events :
         (k > i /\ webhook_events[k].object_id = aid)
           => webhook_events[k].aspect_type # "create"

\* C37: deleted activities stay deleted. Once a delete notification for an
\* activity has been handled and no create notification for it has arrived
\* since, no activity row and no song row of it is stored.
C37_DeletedStayDeleted ==
  DeletedLast(1) =>
    /\ ActivityRows(activities, 1) = {}
    /\ activity_songs = {}

\* ------------------------------------------- failed writes of the handler
\* the write of the request that rejects after the audit row: the job INSERT
\* of a create by a known owner, the DELETE of a delete
FailedWrite(body, rejects) ==
  \/ (rejects = "enqueue" /\ IsCreate(body) /\ UserOfAthlete(body.owner_id) # {})
  \/ (rejects = "delete" /\ IsDelete(body))

\* C40: when the job INSERT or the activity DELETE rejects after the
\* webhook_events row was inserted, the handler answers with a non-error
\* HTTP status, the row stays with processed = false, no job references it,
\* and nothing else is written.
C40_FailedWriteAnswered ==
  [][\A rejects \in {"enqueue", "delete"} :
       (FailedWrite(response'.body, rejects) /\ POST(response'.body, rejects))
         => /\ response'.status < 400
            /\ ~response'.success
            /\ EventWritten
            /\ OlderEventsKept
            /\ ~LastEvent.processed
            /\ \A id \in DOMAIN processing_jobs' :
                 processing_jobs'[id].webhook_event_id # Len(webhook_events')
            /\ UNCHANGED <<processing_jobs, activities, activity_songs>>]_vars

\* a delete notification for the stored activity 1 whose DELETE rejected:
\* answered 200 without success, logged unprocessed, the activity still there
C40_Witness ==
  /\ IsDelete(response.body)
  /\ response.body.object_id = 1
  /\ response.status = 200
  /\ ~response.success
  /\ Len(webhook_events) >= 1
  /\ webhook_events[Len(webhook_events)].aspect_type = "delete"
  /\ ~webhook_events[Len(webhook_events)].processed
  /\ ActivityRows(activities, 1) # {}
====
